---- MODULE Spec2Model ----
(***************************************************************************)
(* Model of the jarvis-assistant server core:                              *)
(*   - AssistantService (the interaction orchestrator) and the socket      *)
(*     handlers that drive it,                                             *)
(*   - SpeechSynthesizer (the speech output selector) and the TTS          *)
(*     providers behind the TTSProviderInterface,                          *)
(*   - WakeWordDetector / AudioRecorder (the wake-listen loop and the      *)
(*     command capture),                                                   *)
(*   - ConversationMemory (the turns kept for the chat service),           *)
(*   - the command registry (findCommand / executeCommand),                *)
(*   - the wake-word matcher of WakeWordDetector (checkWakeWord).          *)
(* Node runs every handler to its next await; one action of the model is   *)
(* one such run-to-completion segment.                                     *)
(***************************************************************************)
EXTENDS Integers, Sequences, FiniteSets, TLC

\* Bound: number of send_message handlers that may be in flight at once.
MaxInflight == 2

Slots == 1..MaxInflight

\* Preference order of the provider slots of the synthesizer.
Providers == <<"piper", "macos">>

ProviderNames == {Providers[k] : k \in DOMAIN Providers}

\* TTSProvider values accepted by setProvider.
Modes == {"auto", "piper", "macos"}

\* AssistantState values in which an interaction is being handled.
Busy == {"processing", "thinking", "executing", "speaking"}

VARIABLES
  state,                \* AssistantService.state
  emitted,              \* the stateChange transitions <<previous, new>> made by the last step
  pc,                   \* per handler slot: position of processMessage
  spkBy,                \* per handler slot: provider whose speak() is in flight
  useLLM,               \* AssistantService.useLLM
  enabled,              \* config.tts.enabled / SpeechSynthesizer.enabled
  avail,                \* per provider: _isAvailable
  checked,              \* per provider: checkAvailability() has completed
  provider,             \* SpeechSynthesizer.provider ("none" for null)
  currentProviderType,  \* SpeechSynthesizer.currentProviderType
  lastOp,               \* the operation the last step performed and what it returned
  inp,                  \* per handler slot: the content being resolved ("none": nothing)
  lastInput,            \* the content the last step accepted or resolved
  remembered,           \* the turns the last step added to the conversation memory
  told,                 \* the 'message' events the last step emitted to the observers
  wListening,           \* WakeWordDetector.isListening
  wProcessing,          \* WakeWordDetector.isProcessing
  wReady,               \* transcriber.isReady()
  wStarts,              \* start() calls awaiting initialize()
  wTimers,              \* pending setTimeout callbacks that call startListenLoop()
  wHandle,              \* listenLoop refers to a pending timer
  wRec,                 \* the detector's recorder: isRecording
  cycles,               \* recordAndCheck() invocations in flight, oldest first
  cmdRec,               \* recordUntilSilence(): its recorder's isRecording
  caller,               \* position of the voice loop that owns detector and capture
  wLast,                \* the wake-side operation the last step performed
  now,                  \* Date.now() in ms, counted from the latest start()
  silenceThreshold,     \* AudioRecorder.silenceThreshold
  silenceDuration,      \* AudioRecorder.silenceDuration
  isRecording,          \* AudioRecorder.isRecording
  process,              \* AudioRecorder.process ("none" for null)
  chunks,               \* AudioRecorder.chunks: the frames, each as hasSound of it
  recordingStartTime,   \* AudioRecorder.recordingStartTime
  silenceTimeout,       \* AudioRecorder.silenceTimeout is an armed interval
  lastSoundTime,        \* AudioRecorder.lastSoundTime
  hasSoundBeenDetected, \* AudioRecorder.hasSoundBeenDetected
  oldProcs,             \* child processes no longer in this.process, listeners attached
  silences,             \* 'silence' events emitted since the last start()
  rEmitted,             \* the events the recorder emitted in the last step
  rLast,                \* the recorder operation of the last step and its result
  messages,             \* ConversationMemory.messages
  maxMessages,          \* ConversationMemory.config.maxMessages
  mNow,                 \* Date.now() in ms, counted from the memory's construction
  lastInteraction,      \* ConversationMemory.lastInteraction
  added,                \* messages added since construction (the next id is added + 1)
  arrivals,             \* ids of the non-system turns added since the last clear, in order
  sysAdded,             \* ids of the system turns added since the last clear
  mLast,                \* the memory operation of the last step and its result
  lastIndex,            \* per registry entry: the lastIndex of its RegExp
  cHistory,             \* the texts resolved so far, each with the command found
  cLast,                \* the registry operation of the last step and its result
  dWakeWord,            \* WakeWordDetector.config.wakeWord
  dCustom,              \* WakeWordDetector.config.customVariations
  dSensitivity,         \* WakeWordDetector.config.sensitivity, in hundredths
  dLast,                \* the matcher operation of the last step and its result
  rateProvider,         \* the provider whose rate is set (SpeechSynthesizer.provider)
  configRate,           \* SpeechSynthesizer.ttsConfig.rate, in hundredths
  nativeRate,           \* per provider: currentRate (ElevenLabs: stability), in hundredths
  ratePrev,             \* the rate operation before the last one
  rateLast,             \* the rate operation of the last step and the parameter it set
  chatMessages,         \* ConversationMemory.messages, with their content
  chatTurn,             \* processMessage calls so far
  chatPending,          \* the input whose llmClient.chat() call is in flight ("none": none)
  chatRequest,          \* the last request handed to llmClient.chat()
  playProvider,         \* the provider whose speak() is called
  phase,                \* per speak() call: where it is
  speaks,               \* speak() calls so far
  currentProcess        \* the provider's process field: the call whose child it holds (0: null)

mainVars == <<state, emitted, pc, spkBy, useLLM, enabled, avail, checked, provider,
              currentProviderType, lastOp, inp, lastInput, remembered, told>>

wakeVars == <<wListening, wProcessing, wReady, wStarts, wTimers, wHandle, wRec,
              cycles, cmdRec, caller, wLast>>

recVars == <<now, silenceThreshold, silenceDuration, isRecording, process, chunks,
             recordingStartTime, silenceTimeout, lastSoundTime, hasSoundBeenDetected,
             oldProcs, silences, rEmitted, rLast>>

memVars == <<messages, maxMessages, mNow, lastInteraction, added, arrivals, sysAdded,
             mLast>>

cmdVars == <<lastIndex, cHistory, cLast>>

detVars == <<dWakeWord, dCustom, dSensitivity, dLast>>

rateVars == <<rateProvider, configRate, nativeRate, ratePrev, rateLast>>

chatVars == <<chatMessages, chatTurn, chatPending, chatRequest>>

playVars == <<playProvider, phase, speaks, currentProcess>>

extVars == <<rateVars, chatVars, playVars>>

libVars == <<memVars, cmdVars, detVars, extVars>>

vars == <<mainVars, wakeVars, recVars, libVars>>

ttsVars == <<enabled, avail, checked, provider, currentProviderType>>

Op(name, i, res, by, out) ==
  [op |-> name, i |-> i, res |-> res, by |-> by, out |-> out]

\* A step that handles no message: it adds no turn and emits no message.
NoTurn ==
  /\ lastInput' = "none"
  /\ remembered' = <<>>
  /\ told' = <<>>
  /\ inp' = inp

----------------------------------------------------------------------------
(* SpeechSynthesizer *)

\* selectProvider() without the fallback of the 'piper' branch.
SelectProviderNoFallback(type, av) ==
  IF type = "auto"
    THEN IF av["piper"] THEN "piper"
         ELSE IF av["macos"] THEN "macos"
         ELSE "none"
  ELSE IF av[type] THEN type ELSE "none"

\* selectProvider(): the provider made active for a requested type and the
\* current availability flags.
SelectProvider(type, av) ==
  IF type = "auto"
    THEN IF av["piper"] THEN "piper"
         ELSE IF av["macos"] THEN "macos"
         ELSE "none"
  ELSE IF type = "piper"
    THEN IF av["piper"] THEN "piper"
         ELSE IF av["macos"] THEN "macos" ELSE "none"
  ELSE IF av["macos"] THEN "macos" ELSE "none"

\* speak(text) without the check for a missing provider: the call on null throws.
SpeakCallNoNullCheck(empty) ==
  IF ~enabled THEN [res |-> "done", by |-> "none"]
  ELSE IF empty THEN [res |-> "done", by |-> "none"]
  ELSE IF provider = "none" THEN [res |-> "thrown", by |-> "none"]
  ELSE IF ~avail[provider] THEN [res |-> "thrown", by |-> "none"]
  ELSE [res |-> "pending", by |-> provider]

\* speak(text) up to the point where it returns, throws, or awaits the
\* provider's synthesis: res is what the caller observes.
SpeakCall(empty) ==
  IF ~enabled THEN [res |-> "done", by |-> "none"]
  ELSE IF empty THEN [res |-> "done", by |-> "none"]
  ELSE IF provider = "none" THEN [res |-> "done", by |-> "none"]
  ELSE IF ~avail[provider] THEN [res |-> "thrown", by |-> "none"]
  ELSE [res |-> "pending", by |-> provider]

\* What speak() gives its caller when the provider's speak() settles.
SpeakSettle(r) == IF r = "ok" THEN "done" ELSE "thrown"

\* The provider's own error path in speak(): a quota/billing answer of the
\* backend clears _isAvailable (OpenAIProvider on 402, ElevenLabsProvider on
\* 429); any other error leaves the flag as it is.  The synthesizer reaches
\* every provider through TTSProviderInterface only.
ProviderFlagAfter(p, r) ==
  IF r = "quota" THEN [avail EXCEPT ![p] = FALSE] ELSE avail

\* A provider's asynchronous checkAvailability() completes.
CheckAvailabilityDone(p, ok) ==
  /\ ~checked[p]
  /\ checked' = [checked EXCEPT ![p] = TRUE]
  /\ avail' = [avail EXCEPT ![p] = ok]
  /\ emitted' = <<>>
  /\ lastOp' = Op("check", 0, "none", p, "none")
  /\ NoTurn
  /\ UNCHANGED <<state, pc, spkBy, useLLM, enabled, provider, currentProviderType, wakeVars, recVars, libVars>>

\* setProvider(provider)
SetProvider(type) ==
  /\ currentProviderType' = type
  /\ provider' = SelectProvider(type, avail)
  /\ emitted' = <<>>
  /\ lastOp' = Op("setProvider", 0, "none", "none", "none")
  /\ NoTurn
  /\ UNCHANGED <<state, pc, spkBy, useLLM, enabled, avail, checked, wakeVars, recVars, libVars>>

\* AssistantService.setTTSEnabled(enabled)
SetTTSEnabled(b) ==
  /\ enabled # b
  /\ enabled' = b
  /\ emitted' = <<>>
  /\ lastOp' = Op("setEnabled", 0, "none", "none", "none")
  /\ NoTurn
  /\ UNCHANGED <<state, pc, spkBy, useLLM, avail, checked, provider, currentProviderType, wakeVars, recVars, libVars>>

----------------------------------------------------------------------------
(* AssistantService and the socket handlers *)

\* processMessage without the try/catch around synthesizer.speak().
SpeakNotCaught(r) == r # "thrown"

\* The try/catch around synthesizer.speak() in processMessage.
SpeakCaught(r) == TRUE

\* Message contents sent by clients.
Texts == {"volume to 42", "asdkjasd", "how are you"}

\* findCommand(input): the name of the first command with a matching
\* pattern; of Texts only "volume to 42" matches one (set-volume).
FindCommand(input) == IF input = "volume to 42" THEN "set-volume" ELSE "none"

\* The keyword branch of generateRuleBasedResponse() an input falls in; of
\* Texts only "how are you" contains a keyword (the status branch).
RuleKeyword(input) == IF input = "how are you" THEN "status" ELSE "none"

\* A text: its kind, the input it quotes, and the mode it reports.
Resp(kind, quoted, mode) == [kind |-> kind, quoted |-> quoted, mode |-> mode]

\* generateRuleBasedResponse(input) with this.useLLM = llm.
RuleBasedResponse(input, llm) ==
  IF RuleKeyword(input) = "status"
    THEN Resp("status", "none", IF llm THEN "LLM connected" ELSE "Rule-based mode")
    ELSE Resp("heard", input, IF llm THEN "" ELSE "demo mode")

\* generateLLMResponse() whose catch rethrows instead of falling back.
GenerateLLMResponseNoFallback(input, chat, llm) ==
  IF chat = "text" THEN Resp("llm", "none", "none")
  ELSE IF chat = "empty" THEN Resp("empty", "none", "none")
  ELSE Resp("undefined", "none", "none")

\* generateLLMResponse(input): chat is how llmClient.chat() settles: with a
\* text, with an empty text, without a content ("fault"), or by throwing
\* ("fail": unreachable, timeout, HTTP error).
GenerateLLMResponse(input, chat, llm) ==
  IF chat = "text" THEN Resp("llm", "none", "none")
  ELSE IF chat = "empty" THEN Resp("empty", "none", "none")
  ELSE IF chat = "fault" THEN Resp("undefined", "none", "none")
  ELSE RuleBasedResponse(input, llm)

\* executeCommand(input).response: the executor's text, an empty text, a
\* result without a response ("fault"), or the apology of the catch ("fail").
ExecuteCommand(input, outcome) ==
  IF outcome = "text" THEN Resp("command", "none", "none")
  ELSE IF outcome = "empty" THEN Resp("empty", "none", "none")
  ELSE IF outcome = "fault" THEN Resp("undefined", "none", "none")
  ELSE Resp("apology", "none", "none")

UserTurn(input) == [role |-> "user", content |-> Resp("input", input, "none")]

AssistantTurn(resp) == [role |-> "assistant", content |-> resp]

\* processMessage from memory.addAssistantMessage(response) on: record and
\* emit the response, setState('speaking'), speak it, then schedule the
\* return to idle and return the message.  user holds the turns this step
\* has already added.
AfterResolve(i, cur, em, user, resp, name) ==
  LET call == IF enabled THEN SpeakCall(resp.kind = "empty")
              ELSE [res |-> "none", by |-> "none"]
  IN /\ remembered' = Append(user, AssistantTurn(resp))
     /\ told' = Append(user, AssistantTurn(resp))
     /\ state' = "speaking"
     /\ emitted' = Append(em, <<cur, "speaking">>)
     /\ IF call.res = "pending"
          THEN /\ pc' = [pc EXCEPT ![i] = "speaking"]
               /\ spkBy' = [spkBy EXCEPT ![i] = call.by]
               /\ lastOp' = Op(name, i, "pending", call.by, "none")
          ELSE /\ spkBy' = spkBy
               /\ IF call.res = "thrown" /\ ~SpeakCaught(call.res)
                    THEN /\ pc' = [pc EXCEPT ![i] = "free"]
                         /\ lastOp' = Op(name, i, call.res, "none", "faulted")
                    ELSE /\ pc' = [pc EXCEPT ![i] = "timer"]
                         /\ lastOp' = Op(name, i, call.res, "none", "returned")
     /\ UNCHANGED <<useLLM, ttsVars, wakeVars, recVars, libVars>>

\* send_message handler: processMessage up to its first real await.
SendMessage(i, input) ==
  /\ pc[i] = "free"
  /\ lastInput' = input
  /\ IF FindCommand(input) # "none" \/ useLLM
       THEN /\ state' = (IF FindCommand(input) # "none" THEN "executing" ELSE "thinking")
            /\ emitted' = <<<<state, "processing">>, <<"processing", state'>>>>
            /\ pc' = [pc EXCEPT ![i] = "resolving"]
            /\ inp' = [inp EXCEPT ![i] = input]
            /\ remembered' = <<UserTurn(input)>>
            /\ told' = <<UserTurn(input)>>
            /\ lastOp' = Op("send", i, "none", "none", "none")
            /\ UNCHANGED <<spkBy, useLLM, ttsVars, wakeVars, recVars, libVars>>
       ELSE /\ inp' = inp
            /\ AfterResolve(i, "thinking",
                            <<<<state, "processing">>, <<"processing", "thinking">>>>,
                            <<UserTurn(input)>>, RuleBasedResponse(input, useLLM), "send")

\* send_message handler with missing or non-string content.
SendInvalid ==
  /\ emitted' = <<>>
  /\ lastOp' = Op("invalid", 0, "none", "none", "none")
  /\ NoTurn
  /\ UNCHANGED <<state, pc, spkBy, useLLM, ttsVars, wakeVars, recVars, libVars>>

\* executeCommand / generateLLMResponse settles and processMessage goes on.
\* A response that is undefined is pushed to the memory by
\* addAssistantMessage(), which then throws on content.substring: an
\* exception before setState('speaking') that only the handler's catch sees.
ResolveDone(i, out) ==
  LET resp == IF FindCommand(inp[i]) # "none"
                THEN ExecuteCommand(inp[i], out)
                ELSE GenerateLLMResponse(inp[i], out, useLLM)
      name == IF out = "text" THEN "resolved"
              ELSE IF out = "empty" THEN "resolvedEmpty"
              ELSE IF out = "fail" THEN "fellBack"
              ELSE "fault"
  IN /\ pc[i] = "resolving"
     /\ lastInput' = inp[i]
     /\ inp' = [inp EXCEPT ![i] = "none"]
     /\ IF resp.kind = "undefined"
          THEN /\ pc' = [pc EXCEPT ![i] = "free"]
               /\ emitted' = <<>>
               /\ remembered' = <<AssistantTurn(resp)>>
               /\ told' = <<>>
               /\ lastOp' = Op(name, i, "none", "none", "faulted")
               /\ UNCHANGED <<state, spkBy, useLLM, ttsVars, wakeVars, recVars, libVars>>
          ELSE AfterResolve(i, state, <<>>, <<>>, resp, name)

\* The provider's speak() settles; processMessage catches, schedules idle, returns.
SpeakDone(i, r) ==
  /\ pc[i] = "speaking"
  /\ avail' = ProviderFlagAfter(spkBy[i], r)
  /\ spkBy' = [spkBy EXCEPT ![i] = "none"]
  /\ emitted' = <<>>
  /\ IF SpeakSettle(r) = "thrown" /\ ~SpeakCaught(SpeakSettle(r))
       THEN /\ pc' = [pc EXCEPT ![i] = "free"]
            /\ lastOp' = Op("spoken", i, SpeakSettle(r), spkBy[i], "faulted")
       ELSE /\ pc' = [pc EXCEPT ![i] = "timer"]
            /\ lastOp' = Op("spoken", i, SpeakSettle(r), spkBy[i], "returned")
  /\ NoTurn
  /\ UNCHANGED <<state, useLLM, enabled, checked, provider, currentProviderType, wakeVars, recVars, libVars>>

\* A setTimeout callback that releases the handler and leaves the state as it is.
IdleTimerKeepsState(i) ==
  /\ pc[i] = "timer"
  /\ emitted' = <<>>
  /\ pc' = [pc EXCEPT ![i] = "free"]
  /\ lastOp' = Op("timer", i, "none", "none", "none")
  /\ NoTurn
  /\ UNCHANGED <<state, spkBy, useLLM, ttsVars, wakeVars, recVars, libVars>>

\* The setTimeout(..., 500) callback of processMessage.
IdleTimer(i) ==
  /\ pc[i] = "timer"
  /\ state' = "idle"
  /\ emitted' = <<<<state, "idle">>>>
  /\ pc' = [pc EXCEPT ![i] = "free"]
  /\ lastOp' = Op("timer", i, "none", "none", "none")
  /\ NoTurn
  /\ UNCHANGED <<spkBy, useLLM, ttsVars, wakeVars, recVars, libVars>>

\* start_listening handler: startListening()
StartListening ==
  /\ state' = "listening"
  /\ emitted' = <<<<state, "listening">>>>
  /\ lastOp' = Op("startListening", 0, "none", "none", "none")
  /\ NoTurn
  /\ UNCHANGED <<pc, spkBy, useLLM, ttsVars, wakeVars, recVars, libVars>>

\* stop_listening handler: stopListening()
StopListening ==
  /\ state' = "idle"
  /\ emitted' = <<<<state, "idle">>>>
  /\ lastOp' = Op("stopListening", 0, "none", "none", "none")
  /\ NoTurn
  /\ UNCHANGED <<pc, spkBy, useLLM, ttsVars, wakeVars, recVars, libVars>>

----------------------------------------------------------------------------
(* WakeWordDetector, its AudioRecorder, and recordUntilSilence *)

\* Bound: recordAndCheck() invocations in flight.
MaxCycles == 2

\* Bound: pending re-listen timers.
MaxTimers == 2

\* Bound: start() calls awaiting initialize().
MaxStarts == 2

RemoveAt(s, k) == [j \in 1..(Len(s) - 1) |-> IF j < k THEN s[j] ELSE s[j + 1]]

\* pause() that sets isProcessing and leaves the recorder running.
PauseRecKeep(rec) == rec

\* pause(): the recorder's isRecording once the detector is paused.
PauseRec(rec) == FALSE

\* startListenLoop() that looks at isListening only and records while paused.
ListenLoopIgnoresPause(l, timersNow, handleNow, rec) ==
  IF ~l
    THEN /\ timersNow < MaxTimers
         /\ wTimers' = timersNow + 1
         /\ wHandle' = TRUE
         /\ wRec' = rec
         /\ cycles' = cycles
    ELSE /\ Len(cycles) < MaxCycles
         /\ wTimers' = timersNow
         /\ wHandle' = handleNow
         /\ wRec' = TRUE
         /\ cycles' = Append(cycles, "recording")

\* startListenLoop() with isListening = l, timersNow timers pending.
ListenLoop(l, timersNow, handleNow, rec) ==
  IF ~l \/ wProcessing
    THEN /\ timersNow < MaxTimers
         /\ wTimers' = timersNow + 1
         /\ wHandle' = TRUE
         /\ wRec' = rec
         /\ cycles' = cycles
    ELSE /\ Len(cycles) < MaxCycles
         /\ wTimers' = timersNow
         /\ wHandle' = handleNow
         /\ wRec' = TRUE
         /\ cycles' = Append(cycles, "recording")

\* scheduleNextListen() at the end of the cycle at position k.
ScheduleNextListen(k) ==
  /\ cycles' = RemoveAt(cycles, k)
  /\ IF wListening
       THEN /\ wTimers < MaxTimers
            /\ wTimers' = wTimers + 1
            /\ wHandle' = TRUE
       ELSE UNCHANGED <<wTimers, wHandle>>

\* start()
WStart ==
  /\ ~wListening
  /\ IF wReady
       THEN /\ wListening' = TRUE
            /\ ListenLoop(TRUE, wTimers, wHandle, wRec)
            /\ UNCHANGED wStarts
       ELSE /\ wStarts < MaxStarts
            /\ wStarts' = wStarts + 1
            /\ UNCHANGED <<wListening, wTimers, wHandle, wRec, cycles>>
  /\ wLast' = "start"
  /\ UNCHANGED <<wProcessing, wReady, cmdRec, caller, mainVars, recVars, libVars>>

\* start() resumes after its await of initialize().
WStartResume ==
  /\ wStarts > 0
  /\ wStarts' = wStarts - 1
  /\ wReady' = TRUE
  /\ wListening' = TRUE
  /\ ListenLoop(TRUE, wTimers, wHandle, wRec)
  /\ wLast' = "startResume"
  /\ UNCHANGED <<wProcessing, cmdRec, caller, mainVars, recVars, libVars>>

\* stop()
WStop ==
  /\ wListening
  /\ wListening' = FALSE
  /\ wTimers' = IF wHandle THEN wTimers - 1 ELSE wTimers
  /\ wHandle' = FALSE
  /\ wRec' = FALSE
  /\ wLast' = "stop"
  /\ UNCHANGED <<wProcessing, wReady, wStarts, cycles, cmdRec, caller, mainVars, recVars, libVars>>

\* A re-listen timer fires and calls startListenLoop().
WTimerFire(isHandle) ==
  /\ wTimers > 0
  /\ IF isHandle THEN wHandle ELSE wTimers > (IF wHandle THEN 1 ELSE 0)
  /\ ListenLoop(wListening, wTimers - 1, IF isHandle THEN FALSE ELSE wHandle, wRec)
  /\ wLast' = "timer"
  /\ UNCHANGED <<wListening, wProcessing, wReady, wStarts, cmdRec, caller, mainVars, recVars, libVars>>

\* recordShort() of the cycle at position k resolves with recorder.stop()
\* (its timeout fired, or the recorder emitted 'silence'), and
\* recordAndCheck() goes on to its next await.
WShortResolve(k, bySilence, short) ==
  /\ k \in DOMAIN cycles
  /\ cycles[k] = "recording"
  /\ bySilence => /\ wRec
                  /\ \A j \in 1..(k - 1) : cycles[j] # "recording"
  /\ ~wRec => short
  /\ wRec' = FALSE
  /\ IF ~wListening \/ wProcessing
       THEN /\ cycles' = RemoveAt(cycles, k)
            /\ UNCHANGED <<wTimers, wHandle>>
       ELSE IF short
         THEN ScheduleNextListen(k)
         ELSE /\ cycles' = [cycles EXCEPT ![k] = "checking"]
              /\ UNCHANGED <<wTimers, wHandle>>
  /\ wLast' = "shortResolve"
  /\ UNCHANGED <<wListening, wProcessing, wReady, wStarts, cmdRec, caller, mainVars, recVars, libVars>>

\* checkWakeWord() settles.
WCheckDone(k, detected) ==
  /\ k \in DOMAIN cycles
  /\ cycles[k] = "checking"
  /\ IF detected
       THEN /\ cycles' = [cycles EXCEPT ![k] = "activating"]
            /\ UNCHANGED <<wTimers, wHandle>>
       ELSE ScheduleNextListen(k)
  /\ wLast' = "checkDone"
  /\ UNCHANGED <<wListening, wProcessing, wReady, wStarts, wRec, cmdRec, caller, mainVars, recVars, libVars>>

\* The voice loop takes the microphone for a command: pause(), then
\* recordUntilSilence().
CallerCapture ==
  /\ wProcessing' = TRUE
  /\ wRec' = PauseRec(wRec)
  /\ cmdRec' = TRUE
  /\ caller' = "capturing"

\* playActivate() settles and 'detected' is emitted to the voice loop.
WActivateDone(k) ==
  /\ k \in DOMAIN cycles
  /\ cycles[k] = "activating"
  /\ cycles' = RemoveAt(cycles, k)
  /\ IF caller = "idle"
       THEN CallerCapture
       ELSE UNCHANGED <<wProcessing, wRec, cmdRec, caller>>
  /\ wLast' = "detected"
  /\ UNCHANGED <<wListening, wReady, wStarts, wTimers, wHandle, mainVars, recVars, libVars>>

\* An explicit start-listening request reaches the voice loop.
CallerListen ==
  /\ caller = "idle"
  /\ CallerCapture
  /\ wLast' = "listen"
  /\ UNCHANGED <<wListening, wReady, wStarts, wTimers, wHandle, cycles, mainVars, recVars, libVars>>

\* recordUntilSilence() resolves: silence or maxDuration, recorder.stop().
CaptureDone ==
  /\ caller = "capturing"
  /\ cmdRec' = FALSE
  /\ caller' = "handling"
  /\ wLast' = "captured"
  /\ UNCHANGED <<wListening, wProcessing, wReady, wStarts, wTimers, wHandle, wRec,
                 cycles, mainVars, recVars, libVars>>

\* The interaction has been spoken; the voice loop calls resume().
InteractionDone ==
  /\ caller = "handling"
  /\ wProcessing' = FALSE
  /\ caller' = "idle"
  /\ wLast' = "resume"
  /\ UNCHANGED <<wListening, wReady, wStarts, wTimers, wHandle, wRec, cycles,
                 cmdRec, mainVars, recVars, libVars>>

----------------------------------------------------------------------------
(* AudioRecorder *)

\* Bound: the clock stops advancing here (ms).
MaxClock == 5400

\* Bound: frames kept in chunks per capture.
MaxChunks == 2

\* Bound: 16-bit samples in one frame.
MaxSamples == 2

\* Bound: killed or orphaned child processes whose events are still to come.
MaxOld == 1

\* The RMS threshold of detectSound().
SoundThreshold == 300

\* The no-signal bound of the silence check (ms).
NoSignalBound == 5000

\* Sample amplitudes fed to detectSound().
Amplitudes == {0, 300, 1000}

\* stdout 'data' frames: up to MaxSamples complete samples each (none: a
\* chunk of a single byte).
Frames == UNION {[1..n -> Amplitudes] : n \in 0..MaxSamples}

\* (silenceThreshold, silenceDuration) as the code constructs recorders: the
\* constructor's defaults and recordUntilSilence(), and the wake detector.
RecorderConfigs == {<<2000, 300>>, <<1500, 200>>}

RECURSIVE SumSq(_)
SumSq(chunk) ==
  IF chunk = <<>> THEN 0
  ELSE chunk[1] * chunk[1] + SumSq(Tail(chunk))

\* detectSound(chunk): the frame's RMS amplitude exceeds the threshold;
\* rms > t is compared as sum > t * t * samples.
DetectSound(chunk) ==
  IF Len(chunk) < 1 THEN FALSE
  ELSE SumSq(chunk) > SoundThreshold * SoundThreshold * Len(chunk)

\* getDuration() at time t.
GetDuration(t) == IF isRecording THEN t - recordingStartTime ELSE 0

\* The silence check that fires as soon as the no-signal bound is reached.
SilenceDueAtBound(hasSound, silenceFor, recordingFor) ==
  \/ hasSound /\ silenceFor > silenceThreshold
  \/ ~hasSound /\ recordingFor >= NoSignalBound

\* The condition under which the interval callback emits 'silence'.
SilenceDue(hasSound, silenceFor, recordingFor) ==
  \/ hasSound /\ silenceFor > silenceThreshold
  \/ ~hasSound /\ recordingFor > NoSignalBound

\* createEmptyBuffer(): the frames in the returned buffer's data.
CreateEmptyBuffer == <<>>

\* createAudioBuffer(): the frames in the returned buffer's data.
CreateAudioBuffer == chunks

\* What a caller sees of a returned buffer: data of length 0, or audio.
Utterance(buffer) == IF Len(buffer) = 0 THEN "empty" ELSE "audio"

ROp(name, was, res) == [op |-> name, was |-> was, res |-> res]

\* new AudioRecorder(options, silenceThreshold, silenceDuration), before the
\* instance is used.
RecConstruct(cfg) ==
  /\ rLast.op = "init"
  /\ silenceThreshold' = cfg[1]
  /\ silenceDuration' = cfg[2]
  /\ rLast' = ROp("new", FALSE, "none")
  /\ rEmitted' = {}
  /\ UNCHANGED <<now, isRecording, process, chunks, recordingStartTime, silenceTimeout,
                 lastSoundTime, hasSoundBeenDetected, oldProcs, silences,
                 mainVars, wakeVars, libVars>>

\* start(); spawnOk is whether the spawned child has its stdout and stderr.
\* The code only ever uses differences of clock readings, and a start() that
\* runs overwrites every stored reading: the clock's origin moves to it.
RecStart(spawnOk) ==
  /\ IF isRecording
       THEN /\ rLast' = ROp("start", TRUE, "ignored")
            /\ rEmitted' = {}
            /\ UNCHANGED <<now, isRecording, process, chunks, recordingStartTime,
                           silenceTimeout, lastSoundTime, hasSoundBeenDetected,
                           silences>>
       ELSE /\ now' = 0
            /\ chunks' = <<>>
            /\ recordingStartTime' = now'
            /\ lastSoundTime' = now'
            /\ isRecording' = TRUE
            /\ hasSoundBeenDetected' = FALSE
            /\ silences' = 0
            /\ IF spawnOk
                 THEN /\ process' = "live"
                      /\ silenceTimeout' = TRUE
                      /\ rEmitted' = {}
                      /\ rLast' = ROp("start", FALSE, "started")
                 ELSE /\ process' = "failed"
                      /\ silenceTimeout' = silenceTimeout
                      /\ rEmitted' = {"error"}
                      /\ rLast' = ROp("start", FALSE, "spawnFailed")
  /\ UNCHANGED <<silenceThreshold, silenceDuration, oldProcs, mainVars, wakeVars, libVars>>

\* stdout 'data' handler, for a frame of the current child or (stale) of a
\* child that this.process no longer refers to.
RecData(chunk, stale) ==
  /\ IF stale THEN oldProcs > 0 ELSE process = "live"
  /\ Len(chunks) < MaxChunks
  /\ chunks' = Append(chunks, DetectSound(chunk))
  /\ IF DetectSound(chunk)
       THEN /\ lastSoundTime' = now
            /\ hasSoundBeenDetected' = TRUE
            /\ rEmitted' = {"data", "sound"}
       ELSE /\ rEmitted' = {"data"}
            /\ UNCHANGED <<lastSoundTime, hasSoundBeenDetected>>
  /\ rLast' = ROp("data", isRecording, IF DetectSound(chunk) THEN "sound" ELSE "quiet")
  /\ UNCHANGED <<now, silenceThreshold, silenceDuration, isRecording, process,
                 recordingStartTime, silenceTimeout, oldProcs, silences,
                 mainVars, wakeVars, libVars>>

\* The setInterval callback of startSilenceDetection(), silenceDuration ms
\* after the previous one (or after start()).
RecTick ==
  /\ silenceTimeout
  /\ now + silenceDuration <= MaxClock
  /\ now' = now + silenceDuration
  /\ IF SilenceDue(hasSoundBeenDetected, now' - lastSoundTime, GetDuration(now'))
       THEN /\ rEmitted' = {"silence"}
            /\ silences' = silences + 1
       ELSE /\ rEmitted' = {}
            /\ silences' = silences
  /\ rLast' = ROp("tick", isRecording,
                  IF SilenceDue(hasSoundBeenDetected, now' - lastSoundTime, GetDuration(now'))
                    THEN "silence" ELSE "none")
  /\ UNCHANGED <<silenceThreshold, silenceDuration, isRecording, process, chunks,
                 recordingStartTime, silenceTimeout, lastSoundTime,
                 hasSoundBeenDetected, oldProcs, mainVars, wakeVars, libVars>>

\* stop() that refuses to run on a recorder that is not recording.
RecStopFailsWhenIdle ==
  /\ IF ~isRecording
       THEN /\ rLast' = ROp("stop", FALSE, "NotRecording")
            /\ rEmitted' = {"error"}
            /\ UNCHANGED <<isRecording, process, silenceTimeout, oldProcs>>
       ELSE /\ process = "live" => oldProcs < MaxOld
            /\ oldProcs' = IF process = "live" THEN oldProcs + 1 ELSE oldProcs
            /\ process' = "none"
            /\ silenceTimeout' = FALSE
            /\ isRecording' = FALSE
            /\ rEmitted' = {"stop"}
            /\ rLast' = ROp("stop", TRUE, Utterance(CreateAudioBuffer))
  /\ UNCHANGED <<now, silenceThreshold, silenceDuration, chunks, recordingStartTime,
                 lastSoundTime, hasSoundBeenDetected, silences, mainVars, wakeVars, libVars>>

\* stop(): the result is the returned buffer.  A killed child still delivers
\* its pending events to the listeners start() attached.
RecStop ==
  /\ IF ~isRecording
       THEN /\ rLast' = ROp("stop", FALSE, Utterance(CreateEmptyBuffer))
            /\ rEmitted' = {}
            /\ UNCHANGED <<isRecording, process, silenceTimeout, oldProcs>>
       ELSE /\ process = "live" => oldProcs < MaxOld
            /\ oldProcs' = IF process = "live" THEN oldProcs + 1 ELSE oldProcs
            /\ process' = "none"
            /\ silenceTimeout' = FALSE
            /\ isRecording' = FALSE
            /\ rEmitted' = {"stop"}
            /\ rLast' = ROp("stop", TRUE, Utterance(CreateAudioBuffer))
  /\ UNCHANGED <<now, silenceThreshold, silenceDuration, chunks, recordingStartTime,
                 lastSoundTime, hasSoundBeenDetected, silences, mainVars, wakeVars, libVars>>

\* cleanup(), run by the 'error' or 'close' listener of the child `of`
\* ("current" or "old"): the current child, if another one, is left running
\* with its listeners.
Cleanup(of) ==
  /\ silenceTimeout' = FALSE
  /\ isRecording' = FALSE
  /\ process' = "none"
  /\ IF of = "old"
       THEN /\ oldProcs > 0
            /\ oldProcs' = IF process = "live" THEN oldProcs ELSE oldProcs - 1
       ELSE /\ process = "live"
            /\ oldProcs' = oldProcs

\* The child's 'close' listener; failed is an exit code other than 0, null
\* and 143, which the listener only logs.
RecProcClose(of, failed) ==
  /\ Cleanup(of)
  /\ rEmitted' = {}
  /\ rLast' = ROp(IF of = "old" THEN "staleClose" ELSE "close", isRecording,
                  IF failed THEN "exitFailure" ELSE "exit")
  /\ UNCHANGED <<now, silenceThreshold, silenceDuration, chunks, recordingStartTime,
                 lastSoundTime, hasSoundBeenDetected, silences, mainVars, wakeVars, libVars>>

\* The child's 'error' listener: emit('error') and cleanup().
RecProcError(of) ==
  /\ Cleanup(of)
  /\ rEmitted' = {"error"}
  /\ rLast' = ROp(IF of = "old" THEN "staleError" ELSE "procError", isRecording, "error")
  /\ UNCHANGED <<now, silenceThreshold, silenceDuration, chunks, recordingStartTime,
                 lastSoundTime, hasSoundBeenDetected, silences, mainVars, wakeVars, libVars>>

----------------------------------------------------------------------------
(* ConversationMemory *)

\* DEFAULT_CONFIG.maxMessages, the value the server's getMemory() runs with.
MaxMessagesDefault == 20

\* DEFAULT_CONFIG.sessionTimeout in ms.
SessionTimeout == 1800000

\* Values of maxMessages the memory is constructed with in the memory runs.
MemoryConfigs == {1, 2}

\* Bound: messages added to one memory.
MaxTurns == 4

\* Bound: steps of the memory's clock.
MaxTicks == 3

\* Steps of the memory's clock: one ms, or a whole session timeout.
ClockSteps == {1, SessionTimeout}

\* The number of clock steps that lead to the instant t.
TicksTo(t) == (t \div SessionTimeout) + (t % SessionTimeout)

IsSystem(m) == m.role = "system"

IsOther(m) == m.role # "system"

\* otherMessages.slice(0, n): the oldest n.
SliceOldest(seq, n) == SubSeq(seq, 1, n)

\* otherMessages.slice(-n): the last n elements, and for n = 0 the whole
\* array, since -0 is 0.
SliceLast(seq, n) ==
  IF n = 0 \/ n >= Len(seq) THEN seq ELSE SubSeq(seq, Len(seq) - n + 1, Len(seq))

\* trimMemory(): what this.messages is afterwards.
TrimMemory(msgs, max) ==
  LET systemMessages == SelectSeq(msgs, IsSystem)
      otherMessages == SelectSeq(msgs, IsOther)
  IN IF Len(otherMessages) > max
       THEN systemMessages \o SliceLast(otherMessages, max)
       ELSE msgs

\* isSessionExpired()
IsSessionExpired == mNow - lastInteraction > SessionTimeout

MOp(name, role, expired) == [op |-> name, role |-> role, expired |-> expired]

\* new ConversationMemory(config)
InitMemory(max) ==
  /\ messages = <<>>
  /\ maxMessages = max
  /\ mNow = 0
  /\ lastInteraction = 0
  /\ added = 0
  /\ arrivals = <<>>
  /\ sysAdded = {}
  /\ mLast = MOp("init", "none", FALSE)

\* addUserMessage(content) / addAssistantMessage(content), the first of which
\* processMessage calls for every message it accepts.
MemAdd(role) ==
  /\ added < MaxTurns
  /\ added' = added + 1
  /\ messages' = TrimMemory(Append(messages, [id |-> added', role |-> role, at |-> mNow]),
                            maxMessages)
  /\ lastInteraction' = mNow
  /\ arrivals' = Append(arrivals, added')
  /\ mLast' = MOp("add", role, IsSessionExpired)
  /\ UNCHANGED <<maxMessages, mNow, sysAdded, mainVars, wakeVars, recVars, cmdVars, detVars, extVars>>

\* addSystemMessage(content)
MemAddSystem ==
  /\ added < MaxTurns
  /\ added' = added + 1
  /\ messages' = <<[id |-> added', role |-> "system", at |-> mNow]>> \o messages
  /\ sysAdded' = sysAdded \cup {added'}
  /\ mLast' = MOp("addSystem", "system", IsSessionExpired)
  /\ UNCHANGED <<maxMessages, mNow, lastInteraction, arrivals, mainVars, wakeVars, recVars, cmdVars, detVars, extVars>>

\* clear(), which clearHistory() calls.
MemClear ==
  /\ messages' = <<>>
  /\ arrivals' = <<>>
  /\ sysAdded' = {}
  /\ mLast' = MOp("clear", "none", IsSessionExpired)
  /\ UNCHANGED <<maxMessages, mNow, lastInteraction, added, mainVars, wakeVars, recVars, cmdVars, detVars, extVars>>

\* newSession()
MemNewSession ==
  /\ messages' = <<>>
  /\ lastInteraction' = mNow
  /\ arrivals' = <<>>
  /\ sysAdded' = {}
  /\ mLast' = MOp("newSession", "none", IsSessionExpired)
  /\ UNCHANGED <<maxMessages, mNow, added, mainVars, wakeVars, recVars, cmdVars, detVars, extVars>>

\* A caller asks isSessionExpired().
MemIsSessionExpired ==
  /\ mLast' = MOp("isSessionExpired", "none", IsSessionExpired)
  /\ UNCHANGED <<messages, maxMessages, mNow, lastInteraction, added, arrivals, sysAdded,
                 mainVars, wakeVars, recVars, cmdVars, detVars, extVars>>

\* Time passes with no call on the memory.
MemTick(d) ==
  /\ TicksTo(mNow) < MaxTicks
  /\ mNow' = mNow + d
  /\ mLast' = MOp("tick", "none", mNow' - lastInteraction > SessionTimeout)
  /\ UNCHANGED <<messages, maxMessages, lastInteraction, added, arrivals, sysAdded,
                 mainVars, wakeVars, recVars, cmdVars, detVars, extVars>>

----------------------------------------------------------------------------
(* Command registry: findCommand / executeCommand *)

\* A text is a sequence of tokens: a word, or a number with its digits.  A
\* pad token stands for white space at either end of the text.
W(w) == [w |-> w, d |-> <<>>]

N(ds) == [w |-> "#", d |-> ds]

Pad == W(" ")

\* Texts given to findCommand() and executeCommand().
Inputs ==
  { <<W("volume"), W("to"), N(<<4, 2>>)>>,
    <<Pad, W("Volume"), W("To"), N(<<4, 2>>), Pad>>,
    <<W("set"), W("the"), W("volume"), W("to"), N(<<7>>)>>,
    <<W("make"), W("volume"), N(<<0, 4, 2>>)>>,
    <<W("set"), W("volume")>>,
    <<W("volume"), W("up")>>,
    <<W("Mute")>>,
    <<W("mute"), W("it")>>,
    <<W("brightness"), W("to"), N(<<4, 2>>)>>,
    <<W("notify"), W("me"), W("lunch")>>,
    <<W("notify"), N(<<7>>)>>,
    <<W("hello"), W("there")>>,
    <<W("asdkjasd")>>,
    <<W("how"), W("are"), W("you")>> }

\* String.prototype.toLowerCase on one word.
LowerWord(w) ==
  CASE w = "Volume" -> "volume" [] w = "To" -> "to" [] w = "Mute" -> "mute"
    [] w = "Set" -> "set" [] w = "Turn" -> "turn" [] w = "Louder" -> "louder"
    [] w = "Silence" -> "silence" [] w = "Unmute" -> "unmute"
    [] w = "Brightness" -> "brightness" [] w = "Show" -> "show"
    [] w = "Meeting" -> "meeting" [] w = "Notify" -> "notify" [] w = "Open" -> "open"
    [] w = "Safari" -> "safari" [] w = "Launch" -> "launch" [] w = "Spotify" -> "spotify"
    [] w = "Go" -> "go" [] w = "Hello" -> "hello" [] w = "Hi" -> "hi"
    [] w = "Jarvis" -> "jarvis" [] w = "Good" -> "good" [] w = "Help" -> "help"
    [] w = "What" -> "what" [] w = "Commands" -> "commands"
    [] OTHER -> w

ToLowerCase(text) == [k \in DOMAIN text |-> [text[k] EXCEPT !.w = LowerWord(@)]]

RECURSIVE TrimStart(_)
TrimStart(text) ==
  IF text # <<>> /\ Head(text) = Pad THEN TrimStart(Tail(text)) ELSE text

RECURSIVE TrimEnd(_)
TrimEnd(text) ==
  IF text # <<>> /\ text[Len(text)] = Pad
    THEN TrimEnd(SubSeq(text, 1, Len(text) - 1))
    ELSE text

\* input.toLowerCase().trim()
Normalize(input) == TrimEnd(TrimStart(ToLowerCase(input)))

\* Elements of a pattern: one word out of ws, the same as an optional group,
\* the capture (\d+), and the capture (.+) at the end of a pattern.
Word(ws) == [t |-> "word", ws |-> ws, opt |-> FALSE]

Opt(ws) == [t |-> "word", ws |-> ws, opt |-> TRUE]

Num == [t |-> "num", ws |-> {}, opt |-> FALSE]

Rest == [t |-> "rest", ws |-> {}, opt |-> FALSE]

\* The capture (.+?) followed by (?:\s+app)?$ at the end of a pattern.
AppName == [t |-> "app", ws |-> {}, opt |-> FALSE]

\* The capture (.+\.(?:com|org|net|io|dev|co|app|ai).*) at the end of a pattern.
Url == [t |-> "url", ws |-> {}, opt |-> FALSE]

\* A word with a dot and one of the endings com, org, net, io, dev, co, app, ai.
HasDomainEnding(w) == w \in {"google.com", "github.com"}

\* A pattern that is not anchored may begin to match inside a word: the word
\* that is left of the token from there on.
InnerWord(w) == IF w = "unmute" THEN "mute" ELSE w

\* Flags of a pattern with the global flag added.
PatternFlagsGlobal == {"g", "i"}

\* The flags every pattern of every registered command is written with.
PatternFlags == {"i"}

\* A pattern: its elements, whether it is anchored with ^ and $, its flags.
Pat(els, anchored) == [els |-> els, anchored |-> anchored, flags |-> PatternFlags]

\* allCommands, flattened to <<command name, pattern>> in the order
\* findCommand() tries them; an excerpt that keeps the order of the source.
Registry ==
  << <<"set-volume", Pat(<<Word({"set"}), Opt({"the"}), Word({"volume"}), Opt({"to"}), Num>>, FALSE)>>,
     <<"set-volume", Pat(<<Word({"volume"}), Opt({"to"}), Num>>, FALSE)>>,
     <<"set-volume", Pat(<<Word({"make"}), Opt({"the"}), Word({"volume"}), Num>>, FALSE)>>,
     <<"volume-up", Pat(<<Word({"turn", "volume"}), Word({"up"})>>, FALSE)>>,
     <<"volume-up", Pat(<<Word({"increase"}), Opt({"the"}), Word({"volume"})>>, FALSE)>>,
     <<"volume-up", Pat(<<Word({"louder"})>>, FALSE)>>,
     <<"volume-up", Pat(<<Word({"raise"}), Opt({"the"}), Word({"volume"})>>, FALSE)>>,
     <<"mute", Pat(<<Word({"mute"})>>, TRUE)>>,
     <<"mute", Pat(<<Word({"mute"}), Opt({"the"}), Word({"audio", "sound", "volume"})>>, FALSE)>>,
     <<"mute", Pat(<<Word({"silence"})>>, FALSE)>>,
     <<"unmute", Pat(<<Word({"unmute"})>>, TRUE)>>,
     <<"unmute", Pat(<<Word({"unmute"}), Opt({"the"}), Word({"audio", "sound", "volume"})>>, FALSE)>>,
     <<"set-brightness", Pat(<<Word({"set"}), Opt({"the"}), Word({"brightness"}), Opt({"to"}), Num>>, FALSE)>>,
     <<"set-brightness", Pat(<<Word({"brightness"}), Opt({"to"}), Num>>, FALSE)>>,
     <<"notify", Pat(<<Word({"show", "send"}), Opt({"a"}), Word({"notification"}),
                       Opt({"saying", "that"}), Rest>>, FALSE)>>,
     <<"notify", Pat(<<Word({"notify"}), Opt({"me"}), Opt({"with", "about"}), Rest>>, FALSE)>>,
     <<"open-app", Pat(<<Word({"open"}), Opt({"the"}), AppName>>, FALSE)>>,
     <<"open-app", Pat(<<Word({"launch"}), Opt({"the"}), AppName>>, FALSE)>>,
     <<"open-app", Pat(<<Word({"start"}), Opt({"the"}), AppName>>, FALSE)>>,
     <<"open-url", Pat(<<Word({"open", "visit"}), Opt({"the"}), Opt({"website", "url"}), Url>>, FALSE)>>,
     <<"open-url", Pat(<<Word({"go"}), Word({"to"}), Opt({"the"}), Opt({"website", "url"}), Url>>, FALSE)>>,
     <<"open-url", Pat(<<Word({"open"}), Rest>>, FALSE)>>,
     <<"open-url", Pat(<<Word({"browse"}), Word({"to"}), Rest>>, FALSE)>>,
     <<"greeting", Pat(<<Word({"hi", "hello", "hey"}), Opt({"jarvis", "there"})>>, TRUE)>>,
     <<"greeting", Pat(<<Word({"good"}), Word({"morning", "afternoon", "evening"})>>, TRUE)>>,
     <<"greeting", Pat(<<Word({"howdy"})>>, TRUE)>>,
     <<"help", Pat(<<Word({"help", "commands"})>>, TRUE)>>,
     <<"help", Pat(<<Word({"what"}), Word({"can"}), Word({"you"}), Word({"do"})>>, FALSE)>>,
     <<"help", Pat(<<Word({"what"}), Word({"are"}), Word({"your"}),
                     Word({"commands", "capabilities"})>>, FALSE)>> >>

NoMatch == [ok |-> FALSE, end |-> 0, caps |-> <<>>]

\* The regexp engine on the elements from the i-th on, at token k of text,
\* with the captures made so far: an optional group is tried first with its
\* word and then without it.
RECURSIVE MatchFrom(_, _, _, _, _)
MatchFrom(els, i, text, k, caps) ==
  IF i > Len(els) THEN [ok |-> TRUE, end |-> k, caps |-> caps]
  ELSE LET e == els[i]
           here == k <= Len(text)
       IN IF e.t = "num"
            THEN IF here /\ text[k].w = "#"
                   THEN MatchFrom(els, i + 1, text, k + 1, Append(caps, <<text[k]>>))
                   ELSE NoMatch
          ELSE IF e.t = "rest"
            THEN IF here
                   THEN MatchFrom(els, i + 1, text, Len(text) + 1,
                                  Append(caps, SubSeq(text, k, Len(text))))
                   ELSE NoMatch
          ELSE IF e.t = "app"
            THEN IF here
                   THEN LET last == Len(text)
                            name == IF last > k /\ text[last].w = "app"
                                      THEN SubSeq(text, k, last - 1)
                                      ELSE SubSeq(text, k, last)
                        IN MatchFrom(els, i + 1, text, last + 1, Append(caps, name))
                   ELSE NoMatch
          ELSE IF e.t = "url"
            THEN IF here /\ \E j \in k..Len(text) : HasDomainEnding(text[j].w)
                   THEN MatchFrom(els, i + 1, text, Len(text) + 1,
                                  Append(caps, SubSeq(text, k, Len(text))))
                   ELSE NoMatch
          ELSE IF here /\ text[k].w \in e.ws
            THEN LET with == MatchFrom(els, i + 1, text, k + 1, caps)
                 IN IF with.ok \/ ~e.opt THEN with
                    ELSE MatchFrom(els, i + 1, text, k, caps)
          ELSE IF e.opt THEN MatchFrom(els, i + 1, text, k, caps)
          ELSE NoMatch

\* RegExp.prototype.exec(text) searching from token k on.
RECURSIVE ExecFrom(_, _, _)
ExecFrom(p, text, k) ==
  IF k > Len(text) THEN NoMatch
  ELSE LET m == MatchFrom(p.els, 1, text, k, <<>>)
           inner == MatchFrom(p.els, 1, [text EXCEPT ![k].w = InnerWord(@)], k, <<>>)
       IN IF m.ok /\ (p.anchored => (k = 1 /\ m.end = Len(text) + 1)) THEN m
          ELSE IF p.anchored THEN NoMatch
          ELSE IF inner.ok THEN inner
          ELSE ExecFrom(p, text, k + 1)

\* pattern.test(text) on a RegExp whose lastIndex is li: whether it matches,
\* and the lastIndex it leaves.  Without the g flag the search starts at the
\* beginning and lastIndex is not touched.
Test(p, text, li) ==
  IF "g" \in p.flags
    THEN LET m == ExecFrom(p, text, li + 1)
         IN [ok |-> m.ok, li |-> IF m.ok THEN m.end - 1 ELSE 0]
    ELSE [ok |-> ExecFrom(p, text, 1).ok, li |-> li]

\* The loop of findCommand() from the k-th pattern on: the name of the first
\* command a pattern of which tests true ("none" for null), and the
\* lastIndex of every pattern afterwards.
RECURSIVE FindFrom(_, _, _)
FindFrom(k, text, li) ==
  IF k > Len(Registry) THEN [name |-> "none", li |-> li]
  ELSE LET t == Test(Registry[k][2], text, li[k])
           li2 == [li EXCEPT ![k] = t.li]
       IN IF t.ok THEN [name |-> Registry[k][1], li |-> li2]
          ELSE FindFrom(k + 1, text, li2)

\* findCommand(input) with the patterns' lastIndex values li.
FindCommandIn(input, li) == FindFrom(1, Normalize(input), li)

\* The loop of executeCommand() over the patterns of the found command, from
\* the k-th registry entry on: the capture groups of the first pattern that
\* String.prototype.match accepts (none when no pattern does).  With the g
\* flag match() returns the matched substrings without any capture group.
RECURSIVE MatchFrom2(_, _, _)
MatchFrom2(k, name, text) ==
  IF k > Len(Registry) THEN <<>>
  ELSE IF Registry[k][1] # name THEN MatchFrom2(k + 1, name, text)
  ELSE LET m == ExecFrom(Registry[k][2], text, 1)
       IN IF m.ok THEN (IF "g" \in Registry[k][2].flags THEN <<>> ELSE m.caps)
          ELSE MatchFrom2(k + 1, name, text)

ParamKey(i) == IF i = 1 THEN "param1" ELSE "param2"

\* /^\d+$/.test(value)
IsDigits(value) == Len(value) = 1 /\ value[1].w = "#"

\* extractEntities(input, matches) from the i-th capture group on.
RECURSIVE EntitiesFrom(_, _, _)
EntitiesFrom(caps, i, entities) ==
  IF i > Len(caps) THEN entities
  ELSE LET value == caps[i]
           typed == IF IsDigits(value)
                      THEN ("level" :> value) @@ ("number" :> value)
                      ELSE ("text" :> value) @@ ("app" :> value)
       IN EntitiesFrom(caps, i + 1, typed @@ (ParamKey(i) :> value) @@ entities)

EmptyEntities == [key \in {} |-> <<>>]

\* extractEntities() that stores the capture groups without typing them.
ExtractEntitiesUntyped(caps) == [key \in {ParamKey(i) : i \in DOMAIN caps} |-> caps[1]]

ExtractEntities(caps) == EntitiesFrom(caps, 1, EmptyEntities)

\* parseInt(digits, 10)
RECURSIVE ParseInt(_)
ParseInt(ds) ==
  IF ds = <<>> THEN 0
  ELSE 10 * ParseInt(SubSeq(ds, 1, Len(ds) - 1)) + ds[Len(ds)]

\* `${level}`: the decimal digits of a number.
RECURSIVE ToDigits(_)
ToDigits(n) == IF n < 10 THEN <<n>> ELSE Append(ToDigits(n \div 10), n % 10)

\* The level set-volume falls back to without a level.
DefaultLevel == 50

\* A response text: a fixed wording, the command it is about, and the level
\* it mentions (none: <<>>).
Response(text, of, level) == [text |-> text, of |-> of, level |-> level]

\* What a call of an executor gives: a CommandResult, or an exception.
Returned(success, response) == [thrown |-> FALSE, success |-> success, response |-> response]

Thrown == [thrown |-> TRUE, success |-> FALSE, response |-> Response("none", "none", <<>>)]

\* How a call of an executor can go: the OS call works, the OS call fails,
\* or the executor's own code throws.
ExecOutcomes == {"ok", "fails", "throws"}

\* The executors written without a try/catch of their own.
NoOwnCatch == {"greeting", "goodbye", "thanks", "help"}

\* command.execute(args): set-volume speaks the level it parsed; every
\* executor with an OS call turns its failure into its own failure text.
Execute(name, entities, os) ==
  IF os = "throws" THEN Thrown
  ELSE IF os = "fails" THEN Returned(FALSE, Response("Sorry, I couldn't", name, <<>>))
  ELSE IF name = "set-volume"
    THEN LET level == IF "level" \in DOMAIN entities
                        THEN ParseInt(entities["level"][1].d)
                        ELSE DefaultLevel
         IN Returned(TRUE, Response("Volume set to %", name, ToDigits(level)))
  ELSE Returned(TRUE, Response("done", name, <<>>))

\* executeCommand() without its try/catch.
RethrowExecutor(r) == r

\* The try/catch of executeCommand() around the executor's call.
CatchExecutor(r) ==
  IF r.thrown
    THEN Returned(FALSE, Response("Sorry, something went wrong while processing that command.",
                                  "none", <<>>))
    ELSE r

\* executeCommand(input) with the patterns' lastIndex values li, the
\* executor's call going as os says.
ExecuteCommandIn(input, os, li) ==
  LET Run(found) ==
        LET caps == MatchFrom2(1, found.name, Normalize(input))
            entities == ExtractEntities(caps)
        IN [name |-> found.name,
            entities |-> entities,
            li |-> [k \in DOMAIN li |->
                      IF Registry[k][1] = found.name /\ "g" \in Registry[k][2].flags
                        THEN 0 ELSE found.li[k]],
            result |-> IF found.name = "none"
                         THEN Returned(FALSE, Response("I'm not sure how to help with that.",
                                                       "none", <<>>))
                         ELSE CatchExecutor(Execute(found.name, entities, os))]
  IN CHOOSE r \in {Run(found) : found \in {FindCommandIn(input, li)}} : TRUE

\* Bound: calls of findCommand() and executeCommand() in one run.
MaxCalls == 3

COp(name, input, command, entities, os, result) ==
  [op |-> name, input |-> input, command |-> command, entities |-> entities,
   os |-> os, result |-> result]

\* The registry when the module is loaded: every RegExp has lastIndex 0.
InitRegistry ==
  /\ lastIndex = [k \in DOMAIN Registry |-> 0]
  /\ cHistory = <<>>
  /\ cLast = COp("init", <<>>, "none", EmptyEntities, "none", Thrown)

\* findCommand(input), as processMessage calls it.
CmdFind(input) ==
  LET found == FindCommandIn(input, lastIndex)
  IN /\ Len(cHistory) < MaxCalls
     /\ lastIndex' = found.li
     /\ cHistory' = Append(cHistory, [input |-> input, command |-> found.name])
     /\ cLast' = COp("find", input, found.name, EmptyEntities, "none", Thrown)
     /\ UNCHANGED <<mainVars, wakeVars, recVars, memVars, detVars, extVars>>

\* executeCommand(input), the executor's call going as os says.
CmdExecute(input, os) ==
  /\ Len(cHistory) < MaxCalls
  /\ \E done \in {ExecuteCommandIn(input, os, lastIndex)} :
       /\ os = "throws" => done.name \in NoOwnCatch
       /\ os = "fails" => done.name \notin NoOwnCatch \cup {"none"}
       /\ lastIndex' = done.li
       /\ cHistory' = Append(cHistory, [input |-> input, command |-> done.name])
       /\ cLast' = COp("execute", input, done.name, done.entities, os, done.result)
       /\ UNCHANGED <<mainVars, wakeVars, recVars, memVars, detVars, extVars>>

\* The examples the registered commands list, each with the command that
\* lists it, for the commands of the registry above.
Examples ==
  << <<"set-volume", <<W("Set"), W("volume"), W("to"), N(<<5, 0>>)>> >>,
     <<"set-volume", <<W("Volume"), W("to"), N(<<7, 5>>)>> >>,
     <<"set-volume", <<W("Set"), W("the"), W("volume"), W("to"), N(<<3, 0>>)>> >>,
     <<"volume-up", <<W("Turn"), W("up"), W("the"), W("volume")>> >>,
     <<"volume-up", <<W("Volume"), W("up")>> >>,
     <<"volume-up", <<W("Louder")>> >>,
     <<"mute", <<W("Mute")>> >>,
     <<"mute", <<W("Mute"), W("the"), W("audio")>> >>,
     <<"mute", <<W("Silence")>> >>,
     <<"unmute", <<W("Unmute")>> >>,
     <<"unmute", <<W("Unmute"), W("the"), W("audio")>> >>,
     <<"set-brightness", <<W("Set"), W("brightness"), W("to"), N(<<5, 0>>)>> >>,
     <<"set-brightness", <<W("Brightness"), W("to"), N(<<7, 5>>)>> >>,
     <<"notify", <<W("Show"), W("a"), W("notification"), W("saying"), W("Meeting"),
                   W("in"), N(<<5>>), W("minutes")>> >>,
     <<"notify", <<W("Notify"), W("me"), W("about"), W("the"), W("deadline")>> >>,
     <<"open-app", <<W("Open"), W("Safari")>> >>,
     <<"open-app", <<W("Launch"), W("Spotify")>> >>,
     <<"open-app", <<W("Open"), W("the"), W("calculator"), W("app")>> >>,
     <<"open-url", <<W("Open"), W("google.com")>> >>,
     <<"open-url", <<W("Go"), W("to"), W("github.com")>> >>,
     <<"greeting", <<W("Hello")>> >>,
     <<"greeting", <<W("Hi"), W("Jarvis")>> >>,
     <<"greeting", <<W("Good"), W("morning")>> >>,
     <<"help", <<W("Help")>> >>,
     <<"help", <<W("What"), W("can"), W("you"), W("do"), W("?")>> >>,
     <<"help", <<W("Commands")>> >> >>

\* findCommand(input) for the k-th example phrase.
CmdFindExample(k) ==
  LET input == Examples[k][2]
      found == FindCommandIn(input, lastIndex)
  IN /\ Len(cHistory) < MaxCalls
     /\ lastIndex' = found.li
     /\ cHistory' = Append(cHistory, [input |-> input, command |-> found.name])
     /\ cLast' = COp("findExample", input, found.name, EmptyEntities, Examples[k][1], Thrown)
     /\ UNCHANGED <<mainVars, wakeVars, recVars, memVars, detVars, extVars>>

----------------------------------------------------------------------------
(* WakeWordDetector: the wake-word matcher *)

\* Strings are sequences of characters.  WAKE_WORD_VARIATIONS, in order:
WAKE_WORD_VARIATIONS ==
  << <<"h", "e", "y", " ", "j", "a", "r", "v", "i", "s">>,
     <<"h", "e", "y", " ", "j", "a", "r", "v">>,
     <<"h", "i", " ", "j", "a", "r", "v", "i", "s">>,
     <<"h", "e", "l", "l", "o", " ", "j", "a", "r", "v", "i", "s">>,
     <<"o", "k", " ", "j", "a", "r", "v", "i", "s">>,
     <<"o", "k", "a", "y", " ", "j", "a", "r", "v", "i", "s">>,
     <<"j", "a", "r", "v", "i", "s">>,
     <<"h", "e", "y", " ", "t", "r", "a", "v", "i", "s">>,
     <<"h", "e", "y", " ", "j", "e", "r", "v", "i", "s">> >>

\* Values of config.wakeWord.
WakeWords == { <<"j", "a", "r", "v", "i", "s">>, <<"c", "o", "m", "p", "u", "t", "e", "r">> }

\* Values of config.customVariations.
CustomVariations == { <<>>, << <<"y", "o", " ", "j", "a", "r", "v", "i", "s">> >> }

\* DEFAULT_CONFIG.sensitivity, in hundredths.
DefaultSensitivity == 60

\* Values of config.sensitivity, in hundredths.
Sensitivities == {0, DefaultSensitivity, 95, 100}

\* Texts the transcriber returns for a listen window.
Transcripts ==
  { <<"h", "e", "y", " ", "j", "a", "r", "v", "i", "s">>,
    <<"h", "e", "y", " ", "j", "a", "r", "v">>,
    <<" ", "H", "e", "y", " ", "J", "a", "r", "v", "i", "s", " ">>,
    <<"j", "a", "r", "v", "i", "s">>,
    <<"h", "e", "l", "l", "o", " ", "j", "a", "r", "v", "i", "s">>,
    <<"h", "e", "y", " ", "j", "a", "r", "v", "i">>,
    <<"h", "e", "y", " ", "c", "o", "m", "p", "u", "t", "e", "r">>,
    <<"c", "o", "m", "p", "u", "t", "e", "r">>,
    <<"y", "o", " ", "j", "a", "r", "v", "i", "s">>,
    <<"w", "h", "a", "t", " ", "t", "i", "m", "e">>,
    <<"z", "z">>,
    <<"b", "d", "f", "g", "n", "q">>,
    <<>>,
    <<" ", " ">> }

\* String.prototype.toLowerCase on one character.
LowerChar(c) == IF c = "H" THEN "h" ELSE IF c = "J" THEN "j" ELSE c

Lower(str) == [k \in DOMAIN str |-> LowerChar(str[k])]

RECURSIVE TrimLeft(_)
TrimLeft(str) == IF str # <<>> /\ Head(str) = " " THEN TrimLeft(Tail(str)) ELSE str

RECURSIVE TrimRight(_)
TrimRight(str) ==
  IF str # <<>> /\ str[Len(str)] = " "
    THEN TrimRight(SubSeq(str, 1, Len(str) - 1))
    ELSE str

\* transcription.text.toLowerCase().trim()
NormalizeTranscript(str) == TrimRight(TrimLeft(Lower(str)))

\* a.includes(b)
Includes(a, b) ==
  \E k \in 1..(Len(a) - Len(b) + 1) : SubSeq(a, k, k + Len(b) - 1) = b

Chars(str) == {str[k] : k \in DOMAIN str}

\* Array.from(new Set(list)): the first occurrence of every element, in order.
RECURSIVE Dedup(_)
Dedup(list) ==
  IF list = <<>> THEN <<>>
  ELSE LET front == SubSeq(list, 1, Len(list) - 1)
           last == list[Len(list)]
       IN IF \E k \in DOMAIN front : front[k] = last
            THEN Dedup(front)
            ELSE Append(Dedup(front), last)

\* The forms buildVariations() generates from the wake word.
Generated(wakeWord) ==
  << wakeWord,
     <<"h", "e", "y", " ">> \o wakeWord,
     <<"h", "i", " ">> \o wakeWord,
     <<"h", "e", "l", "l", "o", " ">> \o wakeWord,
     <<"o", "k", " ">> \o wakeWord >>

\* buildVariations(): the default variations, the custom ones, then the wake
\* word and its prefixed forms.
BuildVariations(wakeWord, custom) ==
  Dedup(WAKE_WORD_VARIATIONS \o [k \in DOMAIN custom |-> Lower(custom[k])]
        \o Generated(Lower(wakeWord)))

\* WakeWordDetector.variations: the constructor and setWakeWord() assign it,
\* both times buildVariations() of the configured wake word and custom
\* variations.
variations == BuildVariations(dWakeWord, dCustom)

\* Numbers are fractions num/den with den > 0.
Frac(num, den) == [num |-> num, den |-> den]

Geq(a, b) == a.num * b.den >= b.num * a.den

\* calculateSimilarity() with the overlap ratio replaced by the ratio of
\* the lengths.
CalculateSimilarityByLength(str1, str2) ==
  LET longer == IF Len(str1) > Len(str2) THEN str1 ELSE str2
      shorter == IF Len(str1) > Len(str2) THEN str2 ELSE str1
  IN IF Len(longer) = 0 THEN Frac(1, 1)
     ELSE IF Includes(longer, shorter)
       THEN Frac(10 * Len(shorter) + 3 * Len(longer), 10 * Len(longer))
     ELSE Frac(Len(shorter), Len(longer))

\* calculateSimilarity(str1, str2)
CalculateSimilarity(str1, str2) ==
  LET longer == IF Len(str1) > Len(str2) THEN str1 ELSE str2
      shorter == IF Len(str1) > Len(str2) THEN str2 ELSE str1
      matches == Cardinality({k \in DOMAIN shorter : shorter[k] \in Chars(longer)})
  IN IF Len(longer) = 0 THEN Frac(1, 1)
     ELSE IF Includes(longer, shorter)
       THEN Frac(10 * Len(shorter) + 3 * Len(longer), 10 * Len(longer))
     ELSE Frac(matches, Len(longer))

\* matchWakeWord() that accepts the exact text only.
MatchWakeWordExact(text, wakeWord, sensitivity) == text = wakeWord

\* matchWakeWord(text, wakeWord) under config.sensitivity (in hundredths).
MatchWakeWord(text, wakeWord, sensitivity) ==
  \/ text = wakeWord
  \/ Includes(text, wakeWord)
  \/ Geq(CalculateSimilarity(text, wakeWord), Frac(sensitivity, 100))

\* calculateConfidence(text, matched)
CalculateConfidence(text, matched) ==
  IF text = matched THEN Frac(1, 1)
  ELSE IF Includes(text, matched) THEN Frac(9, 10)
  ELSE CalculateSimilarity(text, matched)

NotDetected == [detected |-> FALSE, keyword |-> <<>>, confidence |-> Frac(0, 1)]

\* The loop of checkWakeWord() from the k-th variation on.
RECURSIVE CheckFrom(_, _, _, _)
CheckFrom(k, text, list, sensitivity) ==
  IF k > Len(list) THEN NotDetected
  ELSE IF MatchWakeWord(text, list[k], sensitivity)
    THEN [detected |-> TRUE, keyword |-> list[k],
          confidence |-> CalculateConfidence(text, list[k])]
  ELSE CheckFrom(k + 1, text, list, sensitivity)

\* checkWakeWord() once the transcriber has returned the transcript.
CheckWakeWord(transcript, list, sensitivity) ==
  LET text == NormalizeTranscript(transcript)
  IN IF text = <<>> THEN NotDetected ELSE CheckFrom(1, text, list, sensitivity)

DOp(name, transcript, result) == [op |-> name, transcript |-> transcript, result |-> result]

\* new WakeWordDetector(config)
InitDetector(wakeWord, custom, sensitivity) ==
  /\ dWakeWord = wakeWord
  /\ dCustom = custom
  /\ dSensitivity = sensitivity
  /\ dLast = DOp("init", <<>>, NotDetected)

\* checkWakeWord(audioBuffer), the transcriber returning transcript.
DetCheck(transcript) ==
  /\ dLast' = DOp("check", transcript, CheckWakeWord(transcript, variations, dSensitivity))
  /\ UNCHANGED <<dWakeWord, dCustom, dSensitivity,
                 mainVars, wakeVars, recVars, memVars, cmdVars, extVars>>

\* checkWakeWord(audioBuffer), the transcriber throwing: the catch answers.
DetCheckFailed ==
  /\ dLast' = DOp("checkFailed", <<>>, NotDetected)
  /\ UNCHANGED <<dWakeWord, dCustom, dSensitivity,
                 mainVars, wakeVars, recVars, memVars, cmdVars, extVars>>

\* setWakeWord(wakeWord)
DetSetWakeWord(wakeWord) ==
  /\ dWakeWord' = wakeWord
  /\ dLast' = DOp("setWakeWord", <<>>, NotDetected)
  /\ UNCHANGED <<dCustom, dSensitivity, mainVars, wakeVars, recVars, memVars, cmdVars, extVars>>

----------------------------------------------------------------------------
(* SpeechSynthesizer.setRate and the providers' setRate: the rate conversion *)

\* Rates and native parameters are counted in hundredths: 1.0 is 100, 200
\* words per minute are 20000.
RateProviders == {"piper", "macos", "openai", "elevenlabs"}

\* The rates a caller sets: multipliers up to 2.0 and beyond, and values the
\* macOS branch reads as words per minute.
Rates == {25, 50, 100, 150, 160, 200, 250, 400, 15000, 30000, 60000}

\* Math.max(lo, Math.min(hi, x))
Clamp(lo, hi, x) == IF x < lo THEN lo ELSE IF x > hi THEN hi ELSE x

\* PiperProvider.setRate(rate): the new currentRate
PiperSetRate(rate) == Clamp(50, 200, rate)

\* MacOSProvider.setRate(rate): the new currentRate, in words per minute
MacOSSetRate(rate) == Clamp(5000, 50000, rate)

\* OpenAIProvider.setRate(rate): the new currentRate
OpenAISetRate(rate) == Clamp(25, 400, rate)

\* ElevenLabsProvider.setRate(rate): the new stability
ElevenLabsSetRate(rate) == Clamp(0, 100, 150 - rate)

\* Math.round(rate * 200), in hundredths of a word per minute
NormalizedToWPM(rate) == (rate * 2) * 100

\* SpeechSynthesizer.setRate(rate) and applySettings(): the value the selector
\* holding provider p stores in it.  The selector of Piper and macOS converts
\* rates up to 2.0 for macOS and passes every other one as it is; the
\* selector of OpenAI clamps first; ElevenLabs has no selector in front.
Translate(p, rate) ==
  CASE p = "piper" -> PiperSetRate(rate)
    [] p = "macos" -> MacOSSetRate(IF rate <= 200 THEN NormalizedToWPM(rate) ELSE rate)
    [] p = "openai" -> OpenAISetRate(Clamp(25, 400, rate))
    [] p = "elevenlabs" -> ElevenLabsSetRate(rate)

\* (1.0 / currentRate).toFixed(2): Piper's --length_scale, left out (1.0) at
\* rate 1.0
LengthScale(currentRate) ==
  IF currentRate = 100 THEN 100 ELSE (20000 + currentRate) \div (2 * currentRate)

\* The parameter the backend receives when it speaks: --length_scale for
\* Piper, -r for macOS, speed for OpenAI, voice_settings.stability for
\* ElevenLabs.
NativeParameter(p, value) == IF p = "piper" THEN LengthScale(value) ELSE value

\* Speech under parameter a is at least as fast as under b: words per minute
\* and speed grow with the speed, length scale and stability fall with it.
NotSlower(p, a, b) == IF p \in {"macos", "openai"} THEN a >= b ELSE a <= b

RateOp(name, p, rate, native) == [op |-> name, provider |-> p, rate |-> rate, native |-> native]

\* The providers after construction and the selector's first applySettings().
InitRates(p) ==
  /\ rateProvider = p
  /\ configRate = 100
  /\ nativeRate = [q \in RateProviders |->
                     CASE q = "macos" -> IF p = "macos" THEN Translate(q, 100) ELSE 20000
                       [] q = "elevenlabs" -> 50
                       [] OTHER -> 100]
  /\ ratePrev = RateOp("init", p, 100, 0)
  /\ rateLast = RateOp("init", p, 100, 0)

\* setRate(rate) on the selector, or on the provider that has none.
RateSet(rate) ==
  /\ configRate' = rate
  /\ nativeRate' = [nativeRate EXCEPT ![rateProvider] = Translate(rateProvider, rate)]
  /\ ratePrev' = rateLast
  /\ rateLast' = RateOp("setRate", rateProvider, rate,
                        NativeParameter(rateProvider, nativeRate'[rateProvider]))
  /\ UNCHANGED <<rateProvider, chatVars, playVars, mainVars, wakeVars, recVars, memVars, cmdVars, detVars>>

\* setProvider(type) on the selector of Piper and macOS, the provider
\* available: selectProvider() ends with applySettings().
RateSwitch(p) ==
  /\ rateProvider \in {"piper", "macos"}
  /\ p \in {"piper", "macos"}
  /\ rateProvider' = p
  /\ nativeRate' = [nativeRate EXCEPT ![p] = Translate(p, configRate)]
  /\ ratePrev' = rateLast
  /\ rateLast' = RateOp("applySettings", p, configRate, NativeParameter(p, nativeRate'[p]))
  /\ UNCHANGED <<configRate, chatVars, playVars, mainVars, wakeVars, recVars, memVars, cmdVars, detVars>>

----------------------------------------------------------------------------
(* AssistantService.generateLLMResponse: the request to the chat service *)

\* Bound: messages processed in one behaviour.
MaxChatTurns == 6

\* The count generateLLMResponse passes to getRecentMessages().
RecentCount == 10

\* The inputs that no command matches and the chat service answers.
ChatTexts == {"asdkjasd", "how are you"}

\* A message as the memory holds it and as the request carries it: role and
\* content.  turn is the processMessage call the content came from.
ChatMessage(role, text, turn) == [role |-> role, content |-> text, turn |-> turn]

\* getRecentMessages(count): this.messages.slice(-count)
GetRecentMessages(msgs, count) == SliceLast(msgs, count)

\* The messages array generateLLMResponse hands to llmClient.chat(): the
\* recent messages of the memory, then the current message.
BuildMessages(msgs, input, turn) ==
  Append(GetRecentMessages(msgs, RecentCount), ChatMessage("user", input, turn))

ChatRequest(turn, input, msgs) == [turn |-> turn, input |-> input, messages |-> msgs]

\* The service after construction: an empty memory, nothing sent.
InitChat ==
  /\ chatMessages = <<>>
  /\ chatTurn = 0
  /\ chatPending = "none"
  /\ chatRequest = ChatRequest(0, "none", <<>>)

\* processMessage(content) for a content no command matches, the LLM in use:
\* addUserMessage(content), then generateLLMResponse(content) up to its await
\* of llmClient.chat().
ChatSend(input) ==
  /\ chatPending = "none"
  /\ chatTurn < MaxChatTurns
  /\ chatTurn' = chatTurn + 1
  /\ chatMessages' = TrimMemory(Append(chatMessages, ChatMessage("user", input, chatTurn')),
                                MaxMessagesDefault)
  /\ chatRequest' = ChatRequest(chatTurn', input, BuildMessages(chatMessages', input, chatTurn'))
  /\ chatPending' = input
  /\ UNCHANGED <<rateVars, playVars, mainVars, wakeVars, recVars, memVars, cmdVars, detVars>>

\* llmClient.chat() settles, with a text or by throwing (the rule-based
\* response is used); processMessage calls addAssistantMessage(response).
ChatSettle(ok) ==
  /\ chatPending # "none"
  /\ chatMessages' = TrimMemory(Append(chatMessages,
                                       ChatMessage("assistant",
                                                   IF ok THEN "llm" ELSE "rule-based", chatTurn)),
                                MaxMessagesDefault)
  /\ chatPending' = "none"
  /\ UNCHANGED <<chatTurn, chatRequest,
                 rateVars, playVars, mainVars, wakeVars, recVars, memVars, cmdVars, detVars>>

\* clearHistory(): memory.clear()
ChatClear ==
  /\ chatMessages # <<>>
  /\ chatMessages' = <<>>
  /\ UNCHANGED <<chatTurn, chatPending, chatRequest,
                 rateVars, playVars, mainVars, wakeVars, recVars, memVars, cmdVars, detVars>>

----------------------------------------------------------------------------
(* The providers' speak(), stop() and isSpeaking(): the process they track *)

\* Bound: speak() calls on one provider in one behaviour.
MaxSpeaks == 3

PlayProviders == {"piper", "macos", "openai"}

Calls == 1..MaxSpeaks

\* Where a speak() call is: "piper" (the synthesis process runs), "fetch"
\* (OpenAI's request is pending, no process), "say" or "afplay" (the playback
\* process runs), "killed" (its process got SIGTERM and has not closed yet),
\* "free" before the call and "done" after it.
ProcessPhases == {"piper", "say", "afplay"}

\* The process of call c is running.
Running(c) == phase[c] \in ProcessPhases

\* isSpeaking(): currentProcess !== null
IsSpeaking == currentProcess # 0

\* The first phase of speak() on provider p, and whether it spawns a process
\* at once.
FirstPhase(p) == IF p = "piper" THEN "piper" ELSE IF p = "macos" THEN "say" ELSE "fetch"

\* A provider after construction.
InitPlay(p) ==
  /\ playProvider = p
  /\ phase = [c \in Calls |-> "free"]
  /\ speaks = 0
  /\ currentProcess = 0

\* speak(text) up to its first await: Piper spawns piper and macOS spawns
\* say, storing the child in the one process field; OpenAI sends its request.
PlaySpeak ==
  /\ speaks < MaxSpeaks
  /\ speaks' = speaks + 1
  /\ phase' = [phase EXCEPT ![speaks'] = FirstPhase(playProvider)]
  /\ currentProcess' = IF FirstPhase(playProvider) \in ProcessPhases
                         THEN speaks' ELSE currentProcess
  /\ UNCHANGED <<playProvider, rateVars, chatVars,
                 mainVars, wakeVars, recVars, memVars, cmdVars, detVars>>

\* The synthesis of call c ends well (piper closes with code 0 and its
\* listener clears the field; OpenAI's request returns the audio) and
\* playAudio() spawns the player, storing it in the field.
PlaySynthesized(c) ==
  /\ phase[c] \in {"piper", "fetch"}
  /\ phase' = [phase EXCEPT ![c] = "afplay"]
  /\ currentProcess' = c
  /\ UNCHANGED <<playProvider, speaks, rateVars, chatVars,
                 mainVars, wakeVars, recVars, memVars, cmdVars, detVars>>

\* The 'close' (or 'error') listener of the process of call c: the field is
\* cleared whichever process it holds, and speak() settles.  A failed request
\* of OpenAI settles speak() without touching the field.
PlayClose(c) ==
  /\ phase[c] \in ProcessPhases \cup {"killed", "fetch"}
  /\ phase' = [phase EXCEPT ![c] = "done"]
  /\ currentProcess' = IF phase[c] = "fetch" THEN currentProcess ELSE 0
  /\ UNCHANGED <<playProvider, speaks, rateVars, chatVars,
                 mainVars, wakeVars, recVars, memVars, cmdVars, detVars>>

\* stop(): SIGTERM to the process in the field, the field cleared; Piper and
\* macOS then killall their programs, which reaches every process of theirs.
PlayStop ==
  /\ phase' = [c \in Calls |->
                 IF Running(c) /\ (c = currentProcess \/ playProvider # "openai")
                   THEN "killed" ELSE phase[c]]
  /\ currentProcess' = 0
  /\ UNCHANGED <<playProvider, speaks, rateVars, chatVars,
                 mainVars, wakeVars, recVars, memVars, cmdVars, detVars>>

----------------------------------------------------------------------------

\* The server after construction, before any event.
InitService ==
  /\ state = "idle"
  /\ emitted = <<>>
  /\ pc = [i \in Slots |-> "free"]
  /\ spkBy = [i \in Slots |-> "none"]
  /\ useLLM \in BOOLEAN
  /\ enabled = TRUE
  /\ avail = [p \in ProviderNames |-> FALSE]
  /\ checked = [p \in ProviderNames |-> FALSE]
  /\ currentProviderType \in Modes
  /\ provider = SelectProvider(currentProviderType, avail)
  /\ lastOp = Op("init", 0, "none", "none", "none")
  /\ inp = [i \in Slots |-> "none"]
  /\ lastInput = "none"
  /\ remembered = <<>>
  /\ told = <<>>
  /\ wListening = FALSE
  /\ wProcessing = FALSE
  /\ wReady = FALSE
  /\ wStarts = 0
  /\ wTimers = 0
  /\ wHandle = FALSE
  /\ wRec = FALSE
  /\ cycles = <<>>
  /\ cmdRec = FALSE
  /\ caller = "idle"
  /\ wLast = "init"
  /\ now = 0
  /\ silenceThreshold = 2000
  /\ silenceDuration = 300
  /\ isRecording = FALSE
  /\ process = "none"
  /\ chunks = <<>>
  /\ recordingStartTime = 0
  /\ silenceTimeout = FALSE
  /\ lastSoundTime = 0
  /\ hasSoundBeenDetected = FALSE
  /\ oldProcs = 0
  /\ silences = 0
  /\ rEmitted = {}
  /\ rLast = ROp("init", FALSE, "none")

Init ==
  /\ InitService
  /\ InitMemory(MaxMessagesDefault)
  /\ InitRegistry
  /\ InitDetector(<<"j", "a", "r", "v", "i", "s">>, <<>>, DefaultSensitivity)
  /\ InitRates("piper")
  /\ InitChat
  /\ InitPlay("piper")

Next ==
  \/ \E p \in ProviderNames, ok \in BOOLEAN : CheckAvailabilityDone(p, ok)
  \/ \E t \in Modes : SetProvider(t)
  \/ \E b \in BOOLEAN : SetTTSEnabled(b)
  \/ \E i \in Slots, input \in Texts : SendMessage(i, input)
  \/ SendInvalid
  \/ \E i \in Slots, out \in {"text", "empty", "fault", "fail"} : ResolveDone(i, out)
  \/ \E i \in Slots, r \in {"ok", "error", "quota"} : SpeakDone(i, r)
  \/ \E i \in Slots : IdleTimer(i)
  \/ StartListening
  \/ StopListening

Spec == Init /\ [][Next]_vars

\* Node's event loop runs every timer callback that is due, and a provider's
\* speak() promise settles when its child process closes or errors: the
\* playback "succeeds or fails".  Both steps move pc[i].
FairTurn ==
  \A i \in Slots :
    /\ WF_pc(\E r \in {"ok", "error", "quota"} : SpeakDone(i, r))
    /\ WF_pc(IdleTimer(i))

SpecFair == Spec /\ FairTurn

NextWake ==
  \/ WStart
  \/ WStartResume
  \/ WStop
  \/ \E h \in BOOLEAN : WTimerFire(h)
  \/ \E k \in 1..MaxCycles, bySilence \in BOOLEAN, short \in BOOLEAN :
       WShortResolve(k, bySilence, short)
  \/ \E k \in 1..MaxCycles, d \in BOOLEAN : WCheckDone(k, d)
  \/ \E k \in 1..MaxCycles : WActivateDone(k)
  \/ CallerListen
  \/ CaptureDone
  \/ InteractionDone

SpecWake == Init /\ [][NextWake]_vars

\* Node runs every due timer (the re-listen timers, recordShort's
\* listenDuration timer, recordUntilSilence's maxDuration timer), and the
\* awaited initialize(), checkWakeWord() and playActivate() settle; the voice
\* loop ends every interaction with resume().  start(), stop() and the
\* start-listening request are calls from outside and carry no fairness.
FairWake ==
  /\ WF_vars(WStartResume)
  /\ WF_vars(\E h \in BOOLEAN : WTimerFire(h))
  /\ WF_vars(\E k \in 1..MaxCycles, bySilence \in BOOLEAN, short \in BOOLEAN :
               WShortResolve(k, bySilence, short))
  /\ WF_vars(\E k \in 1..MaxCycles, d \in BOOLEAN : WCheckDone(k, d))
  /\ WF_vars(\E k \in 1..MaxCycles : WActivateDone(k))
  /\ WF_vars(CaptureDone)
  /\ WF_vars(InteractionDone)

SpecWakeFair == SpecWake /\ FairWake

NextRec ==
  \/ \E cfg \in RecorderConfigs : RecConstruct(cfg)
  \/ \E spawnOk \in BOOLEAN : RecStart(spawnOk)
  \/ \E chunk \in Frames, stale \in BOOLEAN : RecData(chunk, stale)
  \/ RecTick
  \/ RecStop
  \/ \E of \in {"current", "old"}, failed \in BOOLEAN : RecProcClose(of, failed)
  \/ \E of \in {"current", "old"} : RecProcError(of)

\* The recorder reads nothing of the assistant's configuration: one
\* configuration stands for all.
InitRec ==
  /\ Init
  /\ ~useLLM
  /\ currentProviderType = "auto"

SpecRec == InitRec /\ [][NextRec]_vars

NextMem ==
  \/ \E role \in {"user", "assistant"} : MemAdd(role)
  \/ MemAddSystem
  \/ MemClear
  \/ MemNewSession
  \/ MemIsSessionExpired
  \/ \E d \in ClockSteps : MemTick(d)

\* A memory constructed with one of MemoryConfigs, next to an idle server.
InitMem ==
  /\ InitService
  /\ ~useLLM
  /\ currentProviderType = "auto"
  /\ \E max \in MemoryConfigs : InitMemory(max)
  /\ InitRegistry
  /\ InitRates("piper")
  /\ InitChat
  /\ InitPlay("piper")
  /\ InitDetector(<<"j", "a", "r", "v", "i", "s">>, <<>>, DefaultSensitivity)

SpecMem == InitMem /\ [][NextMem]_vars

NextCmd ==
  \/ \E input \in Inputs : CmdFind(input)
  \/ \E input \in Inputs, os \in ExecOutcomes : CmdExecute(input, os)

SpecCmd == InitRec /\ [][NextCmd]_vars

NextExamples == \E k \in DOMAIN Examples : CmdFindExample(k)

SpecExamples == InitRec /\ [][NextExamples]_vars

NextDet ==
  \/ \E transcript \in Transcripts : DetCheck(transcript)
  \/ DetCheckFailed
  \/ \E wakeWord \in WakeWords : DetSetWakeWord(wakeWord)

\* A detector constructed with any of the configurations, next to an idle
\* server.
InitDet ==
  /\ InitService
  /\ ~useLLM
  /\ currentProviderType = "auto"
  /\ InitMemory(MaxMessagesDefault)
  /\ InitRegistry
  /\ InitRates("piper")
  /\ InitChat
  /\ InitPlay("piper")
  /\ \E wakeWord \in WakeWords, custom \in CustomVariations, sensitivity \in Sensitivities :
       InitDetector(wakeWord, custom, sensitivity)

SpecDet == InitDet /\ [][NextDet]_vars

NextRate ==
  \/ \E rate \in Rates : RateSet(rate)
  \/ \E p \in RateProviders : RateSwitch(p)

\* A selector holding any of the providers, next to an idle server.
InitRate ==
  /\ InitService
  /\ ~useLLM
  /\ currentProviderType = "auto"
  /\ InitMemory(MaxMessagesDefault)
  /\ InitRegistry
  /\ InitDetector(<<"j", "a", "r", "v", "i", "s">>, <<>>, DefaultSensitivity)
  /\ \E p \in RateProviders : InitRates(p)
  /\ InitChat
  /\ InitPlay("piper")

SpecRate == InitRate /\ [][NextRate]_vars

NextChat ==
  \/ \E input \in ChatTexts : ChatSend(input)
  \/ \E ok \in BOOLEAN : ChatSettle(ok)
  \/ ChatClear

\* The service with the LLM in use.
InitChatService ==
  /\ Init
  /\ useLLM
  /\ currentProviderType = "auto"

SpecChat == InitChatService /\ [][NextChat]_vars

NextPlay ==
  \/ PlaySpeak
  \/ \E c \in Calls : PlaySynthesized(c)
  \/ \E c \in Calls : PlayClose(c)
  \/ PlayStop

\* Any of the providers, next to an idle server.
InitPlayback ==
  /\ InitService
  /\ ~useLLM
  /\ currentProviderType = "auto"
  /\ InitMemory(MaxMessagesDefault)
  /\ InitRegistry
  /\ InitDetector(<<"j", "a", "r", "v", "i", "s">>, <<>>, DefaultSensitivity)
  /\ InitRates("piper")
  /\ InitChat
  /\ \E p \in PlayProviders : InitPlay(p)

SpecPlay == InitPlayback /\ [][NextPlay]_vars

----------------------------------------------------------------------------
(* Claims *)

\* The last step called SpeechSynthesizer.speak() with a non-empty text.
SpeakWasCalled ==
  /\ lastOp.op \in {"send", "resolved", "fellBack"}
  /\ lastOp.res \in {"done", "thrown", "pending"}

FirstAvailable ==
  IF avail["piper"] THEN "piper" ELSE IF avail["macos"] THEN "macos" ELSE "none"

\* The edges of the AssistantState machine as the specification lists them.
Edges ==
  {<<"idle", "listening">>, <<"listening", "processing">>,
   <<"processing", "executing">>, <<"processing", "thinking">>,
   <<"executing", "speaking">>, <<"thinking", "speaking">>,
   <<"speaking", "idle">>, <<"error", "idle">>}
  \cup {<<s, "error">> : s \in Busy \cup {"idle", "listening", "error"}}

\* C1: no state change enters "listening" from processing, thinking,
\* executing or speaking.
C1_NoListeningWhileBusy ==
  \A k \in DOMAIN emitted :
    emitted[k][2] = "listening" => emitted[k][1] \notin Busy

\* C2: every change of the current state follows one of the defined edges.
C2_OnlyDefinedEdges ==
  \A k \in DOMAIN emitted :
    emitted[k][1] # emitted[k][2] => emitted[k] \in Edges

\* C3: at most one interaction is being resolved or spoken at any time.
C3_OneInteraction ==
  Cardinality({i \in Slots : pc[i] \in {"resolving", "speaking"}}) <= 1

\* C4: the detector's recorder and the command capture's recorder are never
\* recording at the same time.
C4_OneCapture == ~(wRec /\ cmdRec)

\* C4 witness: the command capture runs after pause() stopped a wake-listen
\* recording whose recordShort() is still pending.
C4_Witness ==
  /\ cmdRec
  /\ wProcessing
  /\ ~wRec
  /\ \E k \in DOMAIN cycles : cycles[k] = "recording"

C6_ActiveIsAvailable == provider = "none" \/ avail[provider]

C9_FallbackForAnyRequest ==
  (/\ lastOp.op = "setProvider"
   /\ currentProviderType \in ProviderNames
   /\ ~avail[currentProviderType]
   /\ FirstAvailable # "none")
  => provider = FirstAvailable

\* C9 amended: a selection for 'piper' while Piper is unavailable and macOS is
\* available activates macOS; a selection for 'macos' while macOS is
\* unavailable leaves no active provider, whether or not Piper is available.
C9_PiperFallsBack ==
  lastOp.op = "setProvider"
  => /\ (currentProviderType = "piper" /\ ~avail["piper"] /\ avail["macos"])
          => provider = "macos"
     /\ (currentProviderType = "macos" /\ ~avail["macos"])
          => provider = "none"

\* C9 witness: 'piper' was requested while only macOS is available.
C9_Witness ==
  /\ lastOp.op = "setProvider"
  /\ currentProviderType = "piper"
  /\ ~avail["piper"]
  /\ avail["macos"]
  /\ provider = "macos"

\* C10: after a fault in an interaction the state is not left in processing,
\* thinking, executing or speaking.
C10_FaultLeavesBusy == lastOp.out = "faulted" => state \notin Busy

\* C11: every interaction that has entered the speaking phase, whether its
\* speak() is still in flight or has already returned or thrown, is followed
\* by the run of its own idle timer, which sets the state to idle.
C11_SpeakingReturnsToIdle ==
  \A i \in Slots :
    (pc[i] \in {"speaking", "timer"})
      ~> (lastOp.op = "timer" /\ lastOp.i = i /\ state = "idle")

\* C11 witness: a playback has failed and the interaction's idle timer is
\* pending while the state is still speaking.
C11_Witness ==
  /\ lastOp.op = "spoken"
  /\ lastOp.res = "thrown"
  /\ pc[lastOp.i] = "timer"
  /\ state = "speaking"

\* The last step ran startListenLoop() with the detector listening and not
\* paused, so it went on to recordAndCheck() and started a recording.
CycleStarted ==
  /\ wLast \in {"start", "startResume", "timer"}
  /\ wListening
  /\ ~wProcessing
  /\ wRec
  /\ cycles # <<>>
  /\ cycles[Len(cycles)] = "recording"

\* C12: after a detection has paused the detector (and the interaction ends
\* with resume()), a new wake-listen cycle eventually starts, unless the
\* detector is stopped or another interaction is requested from outside first.
C12_ResumeRestartsListening ==
  (wLast = "detected" /\ caller = "capturing")
    ~> (CycleStarted \/ ~wListening \/ wLast = "listen")

NoLoudFrame == \A k \in DOMAIN chunks : ~chunks[k]

\* C14: in a capture without a loud frame, a tick of the silence timer emits
\* 'silence' exactly when the recording has lasted more than the 5000 ms
\* no-signal bound, so the first 'silence' comes at the first tick past the
\* bound and none comes before.
C14_NoSignalEndpoint ==
  (rLast.op = "tick" /\ NoLoudFrame)
  => /\ ("silence" \in rEmitted) <=> (now - recordingStartTime > 5000)
     /\ ("silence" \in rEmitted /\ silences = 1)
          => (now - silenceDuration) - recordingStartTime <= 5000

\* C14 witness: the first 'silence' of a capture whose frames all stayed
\* under the threshold.
C14_Witness ==
  /\ rLast.op = "tick"
  /\ chunks # <<>>
  /\ NoLoudFrame
  /\ "silence" \in rEmitted
  /\ silences = 1

\* C15: start() on a recorder that is already recording fails with an
\* AlreadyRecording error.
C15_StartWhileRecordingFails ==
  (rLast.op = "start" /\ rLast.was) => rLast.res = "AlreadyRecording"

\* The last step was a failure of the capture device of the current capture:
\* the child came without its streams, reported an error, or exited with a
\* failure code.
DeviceFailure ==
  \/ rLast.op = "start" /\ rLast.res = "spawnFailed"
  \/ rLast.op = "procError"
  \/ rLast.op = "close" /\ rLast.res = "exitFailure"

\* C16: after a capture-device failure the recorder has emitted 'error', is
\* not recording, and runs no capture process.
C16_FailureSurfaced ==
  DeviceFailure => ("error" \in rEmitted /\ ~isRecording /\ process # "live")

\* C17: stop() on a recorder that is not recording returns the empty buffer,
\* emits no error and changes no field of the recorder; hence a stop() right
\* after a stop() returns the empty buffer.
C17_StopIdempotent ==
  [][(rLast'.op = "stop" /\ ~isRecording)
       => /\ rLast'.res = "empty"
          /\ "error" \notin rEmitted'
          /\ UNCHANGED <<isRecording, process, chunks, recordingStartTime,
                         silenceTimeout, lastSoundTime, hasSoundBeenDetected>>]_vars

\* C17 witness: a second stop() has returned the empty buffer although the
\* frames of the capture the first one ended are still in chunks.
C17_Witness ==
  /\ rLast = ROp("stop", FALSE, "empty")
  /\ chunks # <<>>
  /\ ~isRecording

\* The payload of the 'stateChange' event that setState() emits for a change
\* from prev to new, which each connection's handler forwards unchanged as
\* the assistant_state message: the new state alone.
StateChangePayload(prev, new) == [newState |-> new]

\* The text of the last turn this step told to the observers.
Reply == told[Len(told)].content

\* The chat call of an input that matches no command failed in this step.
ChatFellBack ==
  /\ lastOp.op = "fellBack"
  /\ FindCommand(lastInput) = "none"

SilentTurn == SpeakWasCalled /\ FirstAvailable = "none"

\* C19: when every provider is unavailable the interaction synthesizes
\* nothing and still goes on: the response is in the memory and was told to
\* the observers, the return to idle is scheduled, and it happens.
C19_CompletesSilently ==
  /\ [](SilentTurn
        => /\ lastOp.by = "none"
           /\ lastOp.out = "returned"
           /\ pc[lastOp.i] = "timer"
           /\ state = "speaking"
           /\ remembered # <<>>
           /\ remembered[Len(remembered)].role = "assistant"
           /\ remembered[Len(remembered)].content.kind \notin {"undefined", "empty"}
           /\ told # <<>>
           /\ Reply = remembered[Len(remembered)].content)
  /\ \A i \in Slots :
       (SilentTurn /\ lastOp.i = i)
         ~> (lastOp.op = "timer" /\ lastOp.i = i /\ state = "idle")

\* C19 witness: the chat service answered, every availability check has
\* finished with no provider available, and the answer was told unspoken.
C19_Witness ==
  /\ SilentTurn
  /\ lastOp.op = "resolved"
  /\ provider = "none"
  /\ \A p \in ProviderNames : checked[p]
  /\ told # <<>>
  /\ Reply.kind = "llm"
  /\ pc[lastOp.i] = "timer"

\* C20 as stated: the notification of every state change carries the
\* previous state, the new state and a timestamp.
C20_NotificationCarriesTransition ==
  \A k \in DOMAIN emitted :
    LET n == StateChangePayload(emitted[k][1], emitted[k][2])
    IN /\ {"previousState", "newState", "timestamp"} \subseteq DOMAIN n
       /\ n.previousState = emitted[k][1]
       /\ n.newState = emitted[k][2]

\* The ids of a sequence of messages, in order.
IdsOf(msgs) == [k \in DOMAIN msgs |-> msgs[k].id]

C22_ClearedOnTimeout ==
  (mLast.op = "add" /\ mLast.expired)
  => \A k \in DOMAIN messages : messages[k].at = mNow

\* The text "volume to 42" after normalisation.
VolumeTo42 == <<W("volume"), W("to"), N(<<4, 2>>)>>

\* C23: executeCommand on a text that normalises to "volume to 42" finds
\* set-volume, extracts the entity level = "42", and when the OS call
\* succeeds returns the successful result "Volume set to 42%".
C23_VolumeTo42 ==
  (cLast.op = "execute" /\ Normalize(cLast.input) = VolumeTo42)
  => /\ cLast.command = "set-volume"
     /\ "level" \in DOMAIN cLast.entities
     /\ cLast.entities["level"] = <<N(<<4, 2>>)>>
     /\ cLast.os = "ok"
        => cLast.result = Returned(TRUE, Response("Volume set to %", "set-volume", <<4, 2>>))

\* C23 witness: " Volume To 42 " was executed and the OS call succeeded.
C23_Witness ==
  /\ cLast.op = "execute"
  /\ cLast.input = <<Pad, W("Volume"), W("To"), N(<<4, 2>>), Pad>>
  /\ cLast.os = "ok"
  /\ cLast.result.success
  /\ cLast.result.response.level = <<4, 2>>

\* C24: executeCommand never ends with the executor's exception: when the
\* executor throws, its result is success = false with the generic apology.
C24_ExecutorFailureContained ==
  cLast.op = "execute"
  => /\ ~cLast.result.thrown
     /\ cLast.os = "throws"
        => /\ ~cLast.result.success
           /\ cLast.result.response.text =
                "Sorry, something went wrong while processing that command."

\* C24 witness: the greeting executor threw and a failed result came back.
C24_Witness ==
  /\ cLast.op = "execute"
  /\ cLast.os = "throws"
  /\ cLast.command = "greeting"
  /\ ~cLast.result.thrown
  /\ ~cLast.result.success

\* C25: whatever was resolved in between, the same text resolves to the same
\* command on every call.
C25_ResolveDeterministic ==
  \A j, k \in DOMAIN cHistory :
    cHistory[j].input = cHistory[k].input => cHistory[j].command = cHistory[k].command

\* C25 witness: "volume to 42" was resolved, then another text that matches
\* a command, then "volume to 42" again by findCommand.
C25_Witness ==
  /\ cLast.op = "find"
  /\ Len(cHistory) = 3
  /\ cHistory[1].input = VolumeTo42
  /\ cHistory[2].input # VolumeTo42
  /\ cHistory[2].command \notin {"none", "set-volume"}
  /\ cHistory[3] = [input |-> VolumeTo42, command |-> "set-volume"]

\* The normalised transcript of the check the last step made.
CheckedText == NormalizeTranscript(dLast.transcript)

Sensitivity == Frac(dSensitivity, 100)

\* C26 as stated: a transcript equal to one of the variations is detected,
\* with a confidence of at least the configured sensitivity.
C26_VariationDetected ==
  (dLast.op = "check" /\ \E k \in DOMAIN variations : variations[k] = CheckedText)
  => /\ dLast.result.detected
     /\ Geq(dLast.result.confidence, Sensitivity)

\* The transcript has no character in common with any variation.
SharesNoChar ==
  \A k \in DOMAIN variations : Chars(CheckedText) \cap Chars(variations[k]) = {}

\* C27 as stated: a transcript that shares no character with any variation
\* is not detected.
C27_NoSharedCharNotDetected ==
  (dLast.op = "check" /\ SharesNoChar) => ~dLast.result.detected

\* C27 amended: under a sensitivity above 0, a transcript that shares no
\* character with any variation is not detected and gets confidence 0.
C27_NoSharedCharNotDetectedAboveZero ==
  (dLast.op = "check" /\ SharesNoChar /\ dSensitivity > 0)
  => /\ ~dLast.result.detected
     /\ dLast.result.confidence.num = 0

\* C27 witness: "bdfgnq" was checked under the default sensitivity.
C27_Witness ==
  /\ dLast.op = "check"
  /\ dLast.transcript = <<"b", "d", "f", "g", "n", "q">>
  /\ SharesNoChar
  /\ dSensitivity = DefaultSensitivity
  /\ ~dLast.result.detected

\* C28 as stated: the confidence of every detection result is in [0, 1].
C28_ConfidenceInUnitInterval ==
  dLast.op \in {"check", "checkFailed"}
  => /\ Geq(dLast.result.confidence, Frac(0, 1))
     /\ Geq(Frac(1, 1), dLast.result.confidence)

\* The order in which C29 breaks ties: the base phrase, its generated
\* prefixed forms, then the aliases.
ClaimedOrder ==
  Dedup(Generated(Lower(dWakeWord)) \o WAKE_WORD_VARIATIONS
        \o [k \in DOMAIN dCustom |-> Lower(dCustom[k])])

\* C29 as stated: a detection reports a variation whose score is the best of
\* all variations, the first such variation in the claimed order.
C29_BestVariationReported ==
  (dLast.op = "check" /\ dLast.result.detected)
  => LET score(v) == CalculateConfidence(CheckedText, v)
         best == score(dLast.result.keyword)
     IN /\ \A k \in DOMAIN variations : Geq(best, score(variations[k]))
        /\ \E k \in DOMAIN ClaimedOrder :
             /\ ClaimedOrder[k] = dLast.result.keyword
             /\ \A j \in 1..(k - 1) : ~Geq(score(ClaimedOrder[j]), best)

\* C30: with the wake word "jarvis" and the default sensitivity, the
\* transcript "hey jarv" is detected through the variation "hey jarvis".
C30_HeyJarvDetected ==
  (/\ dLast.op = "check"
   /\ CheckedText = <<"h", "e", "y", " ", "j", "a", "r", "v">>
   /\ dWakeWord = <<"j", "a", "r", "v", "i", "s">>
   /\ dSensitivity = DefaultSensitivity)
  => /\ dLast.result.detected
     /\ dLast.result.keyword = <<"h", "e", "y", " ", "j", "a", "r", "v", "i", "s">>
     /\ Geq(dLast.result.confidence, Sensitivity)

\* C30 witness: "hey jarv" was checked by a detector with the default
\* configuration.
C30_Witness ==
  /\ dLast.op = "check"
  /\ dLast.transcript = <<"h", "e", "y", " ", "j", "a", "r", "v">>
  /\ dWakeWord = <<"j", "a", "r", "v", "i", "s">>
  /\ dCustom = <<>>
  /\ dSensitivity = DefaultSensitivity
  /\ dLast.result.detected

\* C31: for every provider, a higher rate never sets a slower native speed:
\* when two successive rate settings reach the same provider and the second
\* rate is the higher one, the parameter it sets is not slower than the first.
C31_RateMonotonic ==
  (/\ ratePrev.op # "init"
   /\ ratePrev.provider = rateLast.provider
   /\ ratePrev.rate < rateLast.rate)
  => NotSlower(rateLast.provider, rateLast.native, ratePrev.native)

\* An interaction is in progress in slot i: its message was accepted and its
\* speech has not finished.
InProgress(i) == pc[i] \in {"resolving", "speaking"}

\* C32: while an interaction is in progress the state is never idle; neither
\* the delayed return to idle of an earlier interaction nor any other step
\* resets it.
C32_NoIdleDuringInteraction == (\E i \in Slots : InProgress(i)) => state # "idle"

\* recordAndCheck() emits 'detected' in this step.
EmitsDetected == \E k \in DOMAIN cycles : WActivateDone(k)

\* C33: 'detected' is never emitted while the detector is paused or stopped:
\* every step that emits it starts with isListening true and isProcessing
\* false, also when pause() or stop() came during the transcription.
C33_NoDetectedWhilePausedOrStopped ==
  [][EmitsDetected => (wListening /\ ~wProcessing)]_vars

\* C34: at most one wake-listen cycle (a recordAndCheck() call that has not
\* returned) is in flight at any time.
C34_OneCycleInFlight == Len(cycles) <= 1

\* An event of a child process that an earlier start() spawned is delivered.
StaleEvent ==
  \/ \E chunk \in Frames : RecData(chunk, TRUE)
  \/ \E failed \in BOOLEAN : RecProcClose("old", failed)
  \/ RecProcError("old")

\* C35: an event of a previous capture's process never changes a later
\* capture: delivered while the recorder is recording, it leaves the recording
\* flag set, the silence detection armed and the frames as they are.
C35_StaleEventsIgnored ==
  [][(StaleEvent /\ isRecording)
       => (isRecording' /\ silenceTimeout' = silenceTimeout /\ chunks' = chunks)]_vars

\* C36: once an availability check has completed as available the selector
\* does not stay without an active provider, and a speak() call made then is
\* performed by a provider.
C36_AvailableProviderIsUsed ==
  FirstAvailable # "none"
  => /\ provider # "none"
     /\ SpeakWasCalled => lastOp.by \in ProviderNames

\* C37: 'silence' is emitted at most once per capture, between a start() and
\* the stop() that ends it.
C37_SilenceOncePerCapture == silences <= 1

\* The entries of the last request that carry the input of the call that
\* sent it.
CurrentInputEntries ==
  {k \in DOMAIN chatRequest.messages :
     /\ chatRequest.messages[k].role = "user"
     /\ chatRequest.messages[k].turn = chatRequest.turn
     /\ chatRequest.messages[k].content = chatRequest.input}

\* C38: the request handed to the chat service contains the current user
\* input exactly once.
C38_InputOnceInRequest ==
  chatRequest.turn > 0 => Cardinality(CurrentInputEntries) = 1

\* C39: every example phrase a registered command lists resolves to that
\* command: findCommand() on it returns the command that lists it.
C39_ExamplesResolveToOwner ==
  cLast.op = "findExample" => cLast.command = cLast.os

\* C40: isSpeaking() is true whenever a synthesis or playback process that
\* speak() started is still running.
C40_SpeakingWhileProcessRuns == (\E c \in Calls : Running(c)) => IsSpeaking

====
